---- MODULE Spec2Model ----
(***************************************************************************)
(* Tax estimation engine of fiscalprovider: bracket tax, categorization,   *)
(* ruleset loading and the compute pipeline.                                *)
(*                                                                          *)
(* Money is held in integer cents.  A rate r is held in whole percent, so   *)
(* amount * r is a value in hundredths of a cent and roundCurrency divides  *)
(* it back to cents with JavaScript's Math.round (round half up).           *)
(***************************************************************************)
EXTENDS Integers, Sequences, FiniteSets, TLC

VARIABLES
    \* computeBracketTax applied to two incomes of one table
    brTable, brLo, brHi, brTaxLo, brTaxHi,
    \* categorizeTransaction applied to one transaction
    catTx, catRules, catOverrides, catResult,
    \* computeTaxEstimate: the input snapshot, the output of the latest and of
    \* the previous call, the identifiers handed out by createId so far, and
    \* the number of calls made
    snapshot, out, prevOut, idsIssued, calls,
    \* ruleset loader: the ruleset files on disk, the documents signed so far
    \* with the signing secret, the latest load request, the document it read,
    \* its result, and the number of changes made to the files
    files, issued, request, readDoc, loaded, edits,
    \* idempotency: the IdempotencyRecord table, the next row id, the requests
    \* in flight, the number of handler runs per key, and the clock (in days)
    idemRecords, idemNextId, requests, handlerRuns, clock,
    \* bank CSV import: the TransactionFingerprint and Transaction tables and
    \* the imports in progress
    fingerprintTable, transactionTable, imports,
    \* auth: the DeviceSession table, the number of refresh tokens generated,
    \* and the refreshSession calls
    deviceSessions, tokensIssued, refreshCalls

brVars == <<brTable, brLo, brHi, brTaxLo, brTaxHi>>
catVars == <<catTx, catRules, catOverrides, catResult>>
calcVars == <<snapshot, out, prevOut, idsIssued, calls>>
loaderVars == <<files, issued, request, readDoc, loaded, edits>>
idemVars == <<idemRecords, idemNextId, requests, handlerRuns, clock>>
importVars == <<fingerprintTable, transactionTable, imports>>
authVars == <<deviceSessions, tokensIssued, refreshCalls>>
serviceVars == <<idemVars, importVars, authVars>>
vars == <<brVars, catVars, calcVars, loaderVars, serviceVars>>

----------------------------------------------------------------------------
(* Nullable values.  A nullable string is the string or Null; a nullable    *)
(* number n is <<n>> or NullNum, so that it never compares with a number.   *)

Null == "null"
NullNum == <<>>
Num(n) == <<n>>
Val(x) == x[1]

\* An optional object is <<object>> or Undefined.
Undefined == <<>>
Some(x) == <<x>>

Max(a, b) == IF a >= b THEN a ELSE b
Min(a, b) == IF a <= b THEN a ELSE b
Abs(a) == IF a < 0 THEN -a ELSE a

RECURSIVE SumSeq(_)
SumSeq(s) == IF s = <<>> THEN 0 ELSE Head(s) + SumSeq(Tail(s))

MapSeq(s, f(_)) == [i \in 1..Len(s) |-> f(s[i])]

\* All sequences over S of length at most n.
SeqUpTo(S, n) == UNION {[1..k -> S] : k \in 0..n}

----------------------------------------------------------------------------
(* shared/money.ts                                                          *)

\* Math.round(x) for x = num/den, den > 0: floor(x + 1/2).
MathRound(num, den) == (num \div den) + (IF 2 * (num % den) >= den THEN 1 ELSE 0)

\* roundCurrency of the value num/den cents; the Number.EPSILON nudge only
\* repairs binary representation error and vanishes in exact arithmetic.
roundCurrency(num, den) == MathRound(num, den)

clamp(value, min, max) == Min(max, Max(min, value))

----------------------------------------------------------------------------
(* domain/tax/calculator.ts: computeBracketTax                              *)

\* The loop body's contribution of one bracket, in hundredths of a cent.
BracketContribution(income, bracket) ==
    IF income <= bracket.min THEN 0
    ELSE LET upper == IF bracket.max = NullNum THEN income ELSE Val(bracket.max)
             taxableAtBracket == Min(income, upper) - bracket.min
         IN  IF taxableAtBracket > 0 THEN taxableAtBracket * bracket.rate ELSE 0

RECURSIVE BracketTotal(_, _)
BracketTotal(income, brackets) ==
    IF brackets = <<>> THEN 0
    ELSE BracketContribution(income, Head(brackets)) + BracketTotal(income, Tail(brackets))

\* A bracket loop that forgets the upper bound: every bracket below the
\* income taxes everything above its lower bound.
RECURSIVE BracketTotalUncapped(_, _)
BracketTotalUncapped(income, brackets) ==
    IF brackets = <<>> THEN 0
    ELSE (IF income <= Head(brackets).min THEN 0
          ELSE (income - Head(brackets).min) * Head(brackets).rate)
         + BracketTotalUncapped(income, Tail(brackets))

computeBracketTaxUncapped(income, brackets) ==
    roundCurrency(BracketTotalUncapped(income, brackets), 100)

computeBracketTax(income, brackets) ==
    roundCurrency(BracketTotal(income, brackets), 100)

----------------------------------------------------------------------------
(* Bracket tables: contiguous, ascending, non-overlapping, rates >= 0.      *)

MaxBrackets == 3

CutPoint(i) == 1050 * (i - 1)

BracketRates == {0, 10, 22}

BracketIncomes == {0, 33, 1049, 1050, 1051, 2099, 2100, 2133, 3150, 3151, 5000}

\* The table of n brackets with the given rates; the last bracket is
\* unbounded (max null) or closed at the next cut point.
MakeTable(n, rates, open) ==
    [i \in 1..n |->
        [min |-> CutPoint(i),
         max |-> IF i = n /\ open THEN NullNum ELSE Num(CutPoint(i + 1)),
         rate |-> rates[i]]]

BracketTables ==
    UNION {{MakeTable(n, rates, open) : rates \in [1..n -> BracketRates], open \in BOOLEAN}
           : n \in 1..MaxBrackets}

BracketIdle ==
    /\ brTable = <<>>
    /\ brLo = 0
    /\ brHi = 0
    /\ brTaxLo = NullNum
    /\ brTaxHi = NullNum

BracketInit ==
    /\ brTable \in BracketTables
    /\ brLo \in BracketIncomes
    /\ brHi \in {h \in BracketIncomes : h >= brLo}
    /\ brTaxLo = NullNum
    /\ brTaxHi = NullNum

ApplyBracketLo ==
    /\ brTaxLo = NullNum
    /\ brTaxLo' = Num(computeBracketTax(brLo, brTable))
    /\ UNCHANGED <<brTable, brLo, brHi, brTaxHi, catVars, calcVars, loaderVars, serviceVars>>

ApplyBracketHi ==
    /\ brTaxHi = NullNum
    /\ brTaxHi' = Num(computeBracketTax(brHi, brTable))
    /\ UNCHANGED <<brTable, brLo, brHi, brTaxLo, catVars, calcVars, loaderVars, serviceVars>>

----------------------------------------------------------------------------
(* domain/categorization/engine.ts                                          *)
(*                                                                          *)
(* A string is abstracted to the set of lower-case words it contains, and a *)
(* pattern to the alternation of words it searches for; "(" is a pattern    *)
(* that new RegExp rejects with a SyntaxError.                              *)

WordsOf(str) ==
    CASE str = "Amazon Business" -> {"amazon", "business"}
      [] str = "Staples"         -> {"staples"}
      [] str = "Office chairs"   -> {"office", "chairs"}
      [] str = "Team LUNCH"      -> {"team", "lunch"}
      [] str = "Client payout"   -> {"client", "payout"}
      [] str = "Wire 4471"       -> {"wire", "4471"}
      [] OTHER                   -> {}

PatternAlternatives(pattern) ==
    CASE pattern = "amazon|staples" -> {"amazon", "staples"}
      [] pattern = "Lunch|cafe"     -> {"lunch", "cafe"}
      [] pattern = "payout"         -> {"payout"}
      [] pattern = "chairs"         -> {"chairs"}
      [] OTHER                      -> {}

RegExpValid(pattern) == pattern # "("

\* const text = `${transaction.merchant ?? ""} ${transaction.description}`.trim()
MatchingText(transaction) ==
    WordsOf(IF transaction.merchant = Null THEN "" ELSE transaction.merchant)
        \cup WordsOf(transaction.description)

\* new RegExp(pattern, "i").test(value) for a valid pattern
RegExpTest(pattern, text) == PatternAlternatives(pattern) \cap text # {}

\* "T", "F", or "THROW" when new RegExp throws
matchesPattern(value, pattern) ==
    IF pattern = Null \/ pattern = "" THEN "F"
    ELSE IF ~RegExpValid(pattern) THEN "THROW"
    ELSE IF RegExpTest(pattern, value) THEN "T" ELSE "F"

\* matchesPattern(text, x.vendorPattern) || matchesPattern(text, x.keywordPattern)
TextMatched(text, x) ==
    LET vendor == matchesPattern(text, x.vendorPattern)
    IN  IF vendor = "F" THEN matchesPattern(text, x.keywordPattern) ELSE vendor

NoSuggestion == [kind |-> "none"]
Thrown == [kind |-> "throw"]

Suggestion(code, confidence, reason, source) ==
    [kind |-> "suggestion", categoryCode |-> code, confidence |-> confidence,
     reason |-> reason, source |-> source]

AmountMatched(transaction, rule) ==
    /\ (rule.amountMin = NullNum \/ transaction.amount >= Val(rule.amountMin))
    /\ (rule.amountMax = NullNum \/ transaction.amount <= Val(rule.amountMax))

Heuristics(transaction, text) ==
    IF text \cap {"meal", "lunch", "dinner"} # {}
    THEN Suggestion("MEALS", 58, "Keyword heuristic matched meal-related terms.", "HEURISTIC")
    ELSE IF transaction.direction = "INCOME"
    THEN Suggestion("GROSS_RECEIPTS", 55,
                    "Income transaction defaults to gross receipts when no better rule matches.",
                    "HEURISTIC")
    ELSE NoSuggestion

RECURSIVE ScanRules(_, _, _)
ScanRules(transaction, text, rules) ==
    IF rules = <<>> THEN Heuristics(transaction, text)
    ELSE LET rule == Head(rules)
             textMatched == TextMatched(text, rule)
         IN  IF textMatched = "THROW" THEN Thrown
             ELSE IF textMatched = "T" /\ AmountMatched(transaction, rule)
             THEN Suggestion(rule.code, clamp(rule.confidenceBase, 0, 100), rule.reason, "RULE")
             ELSE ScanRules(transaction, text, Tail(rules))

RECURSIVE ScanOverrides(_, _, _, _)
ScanOverrides(transaction, text, rules, overrides) ==
    IF overrides = <<>> THEN ScanRules(transaction, text, rules)
    ELSE LET matched == TextMatched(text, Head(overrides))
         IN  IF matched = "THROW" THEN Thrown
             ELSE IF matched = "T"
             THEN Suggestion(Head(overrides).categoryOverride, 99, "Matched user override.", "USER")
             ELSE ScanOverrides(transaction, text, rules, Tail(overrides))

categorizeTransaction(transaction, mappingRules, overrides) ==
    ScanOverrides(transaction, MatchingText(transaction), mappingRules, overrides)

----------------------------------------------------------------------------
(* Inputs of categorizeTransaction.                                         *)

MaxRules == 2
MaxOverrides == 2

CatTransactions ==
    {[merchant |-> m, description |-> d, amount |-> a, direction |-> dir] :
        m \in {Null, "Amazon Business"},
        d \in {"Office chairs", "Team LUNCH", "Wire 4471"},
        a \in {2000, 200000},
        dir \in {"INCOME", "EXPENSE"}}

CatRuleChoices ==
    {[code |-> "OFFICE_SUPPLIES", vendorPattern |-> "amazon|staples", keywordPattern |-> Null,
      amountMin |-> NullNum, amountMax |-> NullNum, confidenceBase |-> 86,
      reason |-> "Vendor pattern indicates office supplies."],
     [code |-> "MEALS", vendorPattern |-> Null, keywordPattern |-> "Lunch|cafe",
      amountMin |-> NullNum, amountMax |-> Num(50000), confidenceBase |-> 170,
      reason |-> "Vendor pattern suggests meal expense."],
     [code |-> "SOFTWARE", vendorPattern |-> "(", keywordPattern |-> "chairs",
      amountMin |-> Num(2000), amountMax |-> NullNum, confidenceBase |-> 82,
      reason |-> "Description indicates software or recurring SaaS expense."]}

OverrideChoices ==
    {[vendorPattern |-> "amazon|staples", keywordPattern |-> Null, categoryOverride |-> "TRAVEL"],
     [vendorPattern |-> "", keywordPattern |-> "Lunch|cafe", categoryOverride |-> "BANK_FEES"],
     [vendorPattern |-> "(", keywordPattern |-> "chairs", categoryOverride |-> "SOFTWARE"],
     [vendorPattern |-> "chairs", keywordPattern |-> "(", categoryOverride |-> "OFFICE_SUPPLIES"]}

NotRun == [kind |-> "not run"]

NoTransaction == [merchant |-> Null, description |-> "", amount |-> 0, direction |-> "EXPENSE"]

CatIdle ==
    /\ catTx = NoTransaction
    /\ catRules = <<>>
    /\ catOverrides = <<>>
    /\ catResult = NotRun

CatInit ==
    /\ catTx \in CatTransactions
    /\ catRules \in SeqUpTo(CatRuleChoices, MaxRules)
    /\ catOverrides \in SeqUpTo(OverrideChoices, MaxOverrides)
    /\ catResult = NotRun

Categorize ==
    /\ catResult = NotRun
    /\ catResult' = categorizeTransaction(catTx, catRules, catOverrides)
    /\ UNCHANGED <<catTx, catRules, catOverrides, brVars, calcVars, loaderVars, serviceVars>>

----------------------------------------------------------------------------
(* domain/tax/scope.ts                                                      *)

HasAdvancedAttributes(profile) ==
    \/ profile.hasForeignIncome
    \/ profile.hasK1
    \/ profile.hasAdvancedInvestments
    \/ profile.hasAdvancedDepreciation

OutOfScopeFlagFromScope(profile) ==
    [code |-> "OUT_OF_SCOPE_CASE_DETECTED",
     severity |-> "high",
     explanation |-> "The profile contains income or deduction types that are outside the supported surface.",
     suggestedFix |-> "Escalate to a specialized module or manual preparer review.",
     evidence |-> [hasForeignIncome |-> profile.hasForeignIncome,
                   hasK1 |-> profile.hasK1,
                   hasAdvancedInvestments |-> profile.hasAdvancedInvestments,
                   hasAdvancedDepreciation |-> profile.hasAdvancedDepreciation]]

\* A status rule in which advanced attributes no longer override the part-year
\* downgrade.
ScopeStatusPartYearWins(profile) ==
    IF profile.residentState # "ND" THEN "OUT_OF_SCOPE"
    ELSE IF ~profile.isFullYearResident THEN "PARTIAL"
    ELSE IF HasAdvancedAttributes(profile) THEN "OUT_OF_SCOPE"
    ELSE "IN_SCOPE"

\* The successive assignments to status (scope.ts:12, 16, 23 and 36).
ScopeStatus(profile) ==
    LET status1 == IF profile.residentState # "ND" THEN "OUT_OF_SCOPE" ELSE "IN_SCOPE"
        status2 == IF ~profile.isFullYearResident
                   THEN (IF status1 = "OUT_OF_SCOPE" THEN status1 ELSE "PARTIAL")
                   ELSE status1
    IN  IF HasAdvancedAttributes(profile) THEN "OUT_OF_SCOPE" ELSE status2

\* Reason codes that always end with SUPPORTED_CASE.
ScopeReasonCodesAlwaysSupported(nonNd, partYear, advanced) ==
    (IF nonNd THEN <<"NON_ND_RESIDENCY">> ELSE <<>>)
    \o (IF partYear THEN <<"PART_YEAR_RESIDENCY">> ELSE <<>>)
    \o (IF advanced THEN <<"ADVANCED_TAX_ATTRIBUTES">> ELSE <<>>)
    \o <<"SUPPORTED_CASE">>

\* scope.ts:18, 25, 38 and 54-57: the pushes to reasonCodes
ScopeReasonCodes(nonNd, partYear, advanced) ==
    IF ~nonNd /\ ~partYear /\ ~advanced THEN <<"SUPPORTED_CASE">>
    ELSE (IF nonNd THEN <<"NON_ND_RESIDENCY">> ELSE <<>>)
         \o (IF partYear THEN <<"PART_YEAR_RESIDENCY">> ELSE <<>>)
         \o (IF advanced THEN <<"ADVANCED_TAX_ATTRIBUTES">> ELSE <<>>)

evaluateScope(profile) ==
    LET nonNd == profile.residentState # "ND"
        partYear == ~profile.isFullYearResident
        advanced == HasAdvancedAttributes(profile)
        reasons ==
            (IF nonNd THEN <<"Resident state is not North Dakota.">> ELSE <<>>)
            \o (IF partYear
                THEN <<"Part-year residency requires a more advanced state allocation module.">>
                ELSE <<>>)
            \o (IF advanced THEN <<"Advanced tax attributes were detected.">> ELSE <<>>)
        recommendedNextStep ==
            IF advanced
            THEN "Escalate to a CPA or to an advanced tax module before relying on the estimate."
            ELSE IF partYear
            THEN "Treat the output as partial and escalate to a state allocation workflow."
            ELSE IF nonNd
            THEN "Use a multi-state tax workflow or route the case to manual review."
            ELSE "Proceed with the standard compute flow."
    IN  [scope |->
            [status |-> ScopeStatus(profile),
             reasons |-> IF reasons = <<>>
                         THEN <<"Profile falls within the supported scope.">> ELSE reasons,
             reasonCodes |-> ScopeReasonCodes(nonNd, partYear, advanced),
             recommendedNextStep |-> recommendedNextStep],
         assumptions |->
            IF partYear
            THEN <<[code |-> "FULL_YEAR_ND_ASSUMED_FALSE",
                    description |-> "Profile indicates part-year residency, which is only partially supported.",
                    impactLevel |-> "high",
                    userActionNeeded |-> TRUE]>>
            ELSE <<>>,
         flags |-> IF advanced THEN <<OutOfScopeFlagFromScope(profile)>> ELSE <<>>]

----------------------------------------------------------------------------
(* domain/tax/completeness.ts                                               *)

Count(s, Test(_)) == Len(SelectSeq(s, Test))

HasCategory(transaction) == transaction.categoryCode # Null

\* new Date(transaction.date).getUTCMonth() + 1 is the month the record
\* carries; any income source covers all twelve months.
monthsWithActivity(transactions, incomes) ==
    {transactions[i].month : i \in 1..Len(transactions)}
        \cup (IF Len(incomes) > 0 THEN 1..12 ELSE {})

RECURSIVE AscendingSeq(_)
AscendingSeq(S) ==
    IF S = {} THEN <<>>
    ELSE LET m == CHOOSE x \in S : \A y \in S : x <= y
         IN  <<m>> \o AscendingSeq(S \ {m})

\* The dollar threshold of large transactions, in cents (completeness.ts:78).
LargeTransactionCents == 100000

\* A score that does not penalise the absence of income sources.
CompletenessScoreIncomeBlind(profile, incomes, uncategorized, gapCount, largeUnreviewed) ==
    100
    - (IF profile.filingStatus = Null THEN 25 ELSE 0)
    - (IF uncategorized > 0 THEN Min(20, uncategorized * 2) ELSE 0)
    - (IF gapCount >= 4 THEN 15 ELSE 0)
    - (IF largeUnreviewed > 0 THEN Min(10, largeUnreviewed * 2) ELSE 0)

\* The running score before the final clamp (completeness.ts:25, 31, 41, 52,
\* 73 and 81).
CompletenessScore(profile, incomes, uncategorized, gapCount, largeUnreviewed) ==
    100
    - (IF profile.filingStatus = Null THEN 25 ELSE 0)
    - (IF Len(incomes) = 0 THEN 25 ELSE 0)
    - (IF uncategorized > 0 THEN Min(20, uncategorized * 2) ELSE 0)
    - (IF gapCount >= 4 THEN 15 ELSE 0)
    - (IF largeUnreviewed > 0 THEN Min(10, largeUnreviewed * 2) ELSE 0)

evaluateCompleteness(profile, incomes, transactions) ==
    LET LacksCategory(t) == ~HasCategory(t)
        LargeUnreviewed(t) == Abs(t.amount) >= LargeTransactionCents /\ ~t.isReviewed
        uncategorized == Count(transactions, LacksCategory)
        largeUnreviewed == Count(transactions, LargeUnreviewed)
        activityMonths == monthsWithActivity(transactions, incomes)
        gaps == [i \in 1..Cardinality((1..12) \ activityMonths) |->
                    [code |-> "TEMPORAL_GAP",
                     description |-> "No activity found for this month.",
                     month |-> AscendingSeq((1..12) \ activityMonths)[i]]]
        score == CompletenessScore(profile, incomes, uncategorized, Len(gaps),
                                   largeUnreviewed)
        missingItems ==
            (IF profile.filingStatus = Null
             THEN <<[code |-> "MISSING_FILING_STATUS",
                     description |-> "Filing status is required to choose the correct bracket table.",
                     action |-> "Complete the tax profile filing status.",
                     impact |-> "high"]>>
             ELSE <<>>)
            \o (IF Len(incomes) = 0
                THEN <<[code |-> "MISSING_INCOME",
                        description |-> "No income sources are loaded for the selected tax year.",
                        action |-> "Add W-2, 1099 or business income records.",
                        impact |-> "high"]>>
                ELSE <<>>)
            \o (IF uncategorized > 0
                THEN <<[code |-> "UNCATEGORIZED_TRANSACTIONS",
                        description |-> ToString(uncategorized)
                                          \o " transactions are missing a confirmed category.",
                        action |-> "Review low-confidence and uncategorized transactions.",
                        impact |-> IF uncategorized > 8 THEN "high" ELSE "medium"]>>
                ELSE <<>>)
            \o (IF largeUnreviewed > 0
                THEN <<[code |-> "LARGE_UNREVIEWED_TRANSACTIONS",
                        description |-> ToString(largeUnreviewed)
                                          \o " large transactions have not been reviewed.",
                        action |-> "Confirm category and supporting documents for large transactions.",
                        impact |-> "medium"]>>
                ELSE <<>>)
        actions == IF Len(gaps) >= 4
                   THEN <<"Investigate temporal gaps to confirm the year is fully loaded.">>
                   ELSE <<"No blocking completeness issues detected.">>
    IN  [score |-> clamp(score, 0, 100),
         missingItems |-> missingItems,
         gaps |-> gaps,
         actions |-> actions]

----------------------------------------------------------------------------
(* domain/tax/confidence.ts                                                 *)

\* A driver that records the penalty with the sign of a gain.
DriverUnsigned(code, impact, reason) ==
    [code |-> code, impact |-> impact, reason |-> reason]

\* drivers.push({ code, impact: -impact, reason })
Driver(code, impact, reason) ==
    [code |-> code, impact |-> -impact, reason |-> reason]

evaluateConfidence(completeness, incomes, transactions, flags, stateComputable) ==
    LET IsConfirmed(i) == i.isConfirmed
        IsHigh(f) == f.severity = "high"
        n == Len(incomes)
        confirmedIncomes == Count(incomes, IsConfirmed)
        m == Len(transactions)
        categorized == Count(transactions, HasCategory)
        \* incomeConfirmationRatio < 0.8, with ratio 0 when there is no income
        incomeGap == n = 0 \/ 5 * confirmedIncomes < 4 * n
        \* Math.round((0.8 - ratio) * 25)
        incomeImpact == IF n = 0 THEN 20 ELSE MathRound(20 * n - 25 * confirmedIncomes, n)
        \* categorizedRatio < 0.85, with ratio 1 when there is no transaction
        categoryGap == m > 0 /\ 20 * categorized < 17 * m
        \* Math.round((0.85 - ratio) * 35)
        categoryImpact == IF m = 0 THEN 0 ELSE MathRound(119 * m - 140 * categorized, 4 * m)
        highFlags == Count(flags, IsHigh)
        flagImpact == Min(25, highFlags * 8)
        score == completeness.score
                 - (IF incomeGap THEN incomeImpact ELSE 0)
                 - (IF categoryGap THEN categoryImpact ELSE 0)
                 - (IF ~stateComputable THEN 20 ELSE 0)
                 - (IF highFlags > 0 THEN flagImpact ELSE 0)
        drivers ==
            (IF incomeGap
             THEN <<Driver("INCOME_CONFIRMATION_GAP", incomeImpact,
                            "Confirmed income coverage is below 80%.")>>
             ELSE <<>>)
            \o (IF categoryGap
                THEN <<Driver("UNCATEGORIZED_TRANSACTIONS", categoryImpact,
                               "Too many transactions remain uncategorized.")>>
                ELSE <<>>)
            \o (IF ~stateComputable
                THEN <<Driver("STATE_RULESET_STALE", 20,
                               "North Dakota ruleset is stale or not computable.")>>
                ELSE <<>>)
            \o (IF highFlags > 0
                THEN <<Driver("HIGH_RISK_FLAGS", flagImpact,
                               ToString(highFlags) \o " high-severity risk flags were raised.")>>
                ELSE <<>>)
    IN  [score |-> clamp(score, 0, 100),
         drivers |-> IF drivers = <<>>
                     THEN <<[code |-> "CONFIDENCE_STABLE", impact |-> 0,
                             reason |-> "Coverage, categorization and ruleset status are healthy."]>>
                     ELSE drivers]

----------------------------------------------------------------------------
(* domain/tax/risk-flags.ts                                                 *)

\* Array.prototype.join(" ")
RECURSIVE JoinWithSpace(_)
JoinWithSpace(strings) ==
    IF strings = <<>> THEN ""
    ELSE IF Len(strings) = 1 THEN Head(strings)
    ELSE Head(strings) \o " " \o JoinWithSpace(Tail(strings))

buildRiskFlags(scope, incomes, transactions, stateRuleset) ==
    LET LacksCategory(t) == ~HasCategory(t)
        IsExpense(t) == t.direction = "EXPENSE"
        IsMeals(t) == t.categoryCode = "MEALS"
        total == Len(transactions)
        uncategorizedCount == Count(transactions, LacksCategory)
        expenseCount == Count(transactions, IsExpense)
        mealsCount == Count(transactions, IsMeals)
    IN  \* uncategorizedRatio >= 0.25, severity high at >= 0.4
        (IF total > 0 /\ 4 * uncategorizedCount >= total
         THEN <<[code |-> "HIGH_UNCATEGORIZED_RATIO",
                 severity |-> IF 5 * uncategorizedCount >= 2 * total THEN "high" ELSE "medium",
                 explanation |-> "A large share of transactions is still uncategorized.",
                 suggestedFix |-> "Review the categorization queue and confirm overrides for recurring merchants.",
                 evidence |-> [uncategorizedCount |-> uncategorizedCount,
                               totalTransactions |-> total]]>>
         ELSE <<>>)
        \o (IF expenseCount > 0 /\ Len(incomes) = 0
            THEN <<[code |-> "MISSING_INCOME_SIGNAL",
                    severity |-> "high",
                    explanation |-> "Business expenses are present without any matching income source.",
                    suggestedFix |-> "Add or confirm income sources before relying on the estimate."]>>
            ELSE <<>>)
        \* mealsRatio > 0.35
        \o (IF expenseCount > 0 /\ 20 * mealsCount > 7 * expenseCount
            THEN <<[code |-> "UNUSUAL_MEALS_RATIO",
                    severity |-> "medium",
                    explanation |-> "Meal expenses represent an unusually large share of business expenses.",
                    suggestedFix |-> "Review meal categorization and confirm business purpose on supporting receipts.",
                    evidence |-> [mealsTransactions |-> mealsCount,
                                  expenseTransactions |-> expenseCount]]>>
            ELSE <<>>)
        \o (IF ~stateRuleset.computable
            THEN <<[code |-> "STATE_RULESET_STALE",
                    severity |-> "high",
                    explanation |-> "North Dakota ruleset is marked stale and state tax cannot be computed safely.",
                    suggestedFix |-> IF stateRuleset.staleness = Undefined
                                     THEN "Validate and reload the ND ruleset."
                                     ELSE Val(stateRuleset.staleness).action]>>
            ELSE <<>>)
        \o (IF scope.status # "IN_SCOPE"
            THEN <<[code |-> "OUT_OF_SCOPE_CASE_DETECTED",
                    severity |-> IF scope.status = "OUT_OF_SCOPE" THEN "high" ELSE "medium",
                    explanation |-> JoinWithSpace(scope.reasons),
                    suggestedFix |-> "Escalate to manual review or a more advanced tax module."]>>
            ELSE <<>>)

----------------------------------------------------------------------------
(* domain/tax/calculator.ts                                                 *)

DeductibleCategories == {"OFFICE_SUPPLIES", "MEALS", "TRAVEL", "SOFTWARE", "BANK_FEES"}

\* A test that accepts every expense, whatever its category.
detectDeductibleExpenseAnyCategory(transaction) ==
    transaction.direction = "EXPENSE"

detectDeductibleExpense(transaction) ==
    /\ transaction.direction = "EXPENSE"
    /\ transaction.categoryCode \in DeductibleCategories

\* Only reached with netSelfEmploymentIncome taken from a computation
\* that returned no range, which carries a net income of 0.
estimateSelfEmploymentTaxRange(netSelfEmploymentIncome) ==
    IF netSelfEmploymentIncome <= 0 THEN Undefined
    ELSE LET baseline == roundCurrency(netSelfEmploymentIncome * 14129555, 100000000)
         IN  Some([low |-> roundCurrency(baseline * 95, 100),
                   high |-> roundCurrency(baseline * 105, 100)])

IsSelfEmploymentIncome(income) == income.type \in {"FORM_1099_NEC", "BUSINESS_GROSS"}

IsW2(income) == income.type = "W2"

IncomeAmounts(incomes) == [i \in 1..Len(incomes) |-> incomes[i].amount]

\* A deduction of half of the whole tax, Additional Medicare included.
DeductibleHalfOfTotal(socialSecurityPortion, medicarePortion, additionalMedicarePortion) ==
    roundCurrency(socialSecurityPortion + medicarePortion + additionalMedicarePortion, 2)

\* roundCurrency((socialSecurityPortion + medicarePortion) / 2)
DeductibleHalf(socialSecurityPortion, medicarePortion, additionalMedicarePortion) ==
    roundCurrency(socialSecurityPortion + medicarePortion, 2)

computeSelfEmploymentTax(filingStatus, grossIncome, businessExpenses, input) ==
    LET hasSelfEmploymentIncome == Count(input.incomes, IsSelfEmploymentIncome) > 0
        netSelfEmploymentIncome == roundCurrency(Max(0, grossIncome - businessExpenses), 1)
        rules == input.federalRuleset.selfEmploymentTax
        taxableEarnings == roundCurrency(netSelfEmploymentIncome * rules.netEarningsFactor, 100)
        w2Wages == roundCurrency(SumSeq(IncomeAmounts(SelectSeq(input.incomes, IsW2))), 1)
        remainingSocialSecurityBase == Max(0, rules.socialSecurityWageBase - w2Wages)
        socialSecurityPortion ==
            roundCurrency(Min(taxableEarnings, remainingSocialSecurityBase)
                              * rules.socialSecurityRate, 100)
        medicarePortion == roundCurrency(taxableEarnings * rules.medicareRate, 100)
        additionalMedicareThreshold == rules.additionalMedicareThreshold[filingStatus]
        remainingAdditionalThreshold == Max(0, additionalMedicareThreshold - w2Wages)
        additionalMedicarePortion ==
            roundCurrency(Max(0, taxableEarnings - remainingAdditionalThreshold)
                              * rules.additionalMedicareRate, 100)
        total == roundCurrency(socialSecurityPortion + medicarePortion
                                   + additionalMedicarePortion, 1)
        deductibleHalf == DeductibleHalf(socialSecurityPortion, medicarePortion, additionalMedicarePortion)
    IN  IF ~hasSelfEmploymentIncome \/ filingStatus = Null
        THEN [hasSelfEmploymentIncome |-> hasSelfEmploymentIncome,
              netSelfEmploymentIncome |-> 0,
              taxableEarnings |-> 0,
              details |-> Undefined,
              deduction |-> 0,
              estimateRange |-> Undefined]
        ELSE IF netSelfEmploymentIncome <= 0
        THEN [hasSelfEmploymentIncome |-> hasSelfEmploymentIncome,
              netSelfEmploymentIncome |-> netSelfEmploymentIncome,
              taxableEarnings |-> 0,
              details |-> Undefined,
              deduction |-> 0,
              estimateRange |-> Some([low |-> 0, high |-> 0])]
        ELSE [hasSelfEmploymentIncome |-> hasSelfEmploymentIncome,
              netSelfEmploymentIncome |-> netSelfEmploymentIncome,
              taxableEarnings |-> taxableEarnings,
              details |-> Some([total |-> total,
                                deductibleHalf |-> deductibleHalf,
                                socialSecurityPortion |-> socialSecurityPortion,
                                medicarePortion |-> medicarePortion,
                                additionalMedicarePortion |-> additionalMedicarePortion]),
              deduction |-> deductibleHalf,
              estimateRange |-> Some([low |-> total, high |-> total])]

buildEstimatedPaymentPlan(taxYear, annualAmount) ==
    IF annualAmount <= 0 THEN <<>>
    ELSE LET installment == roundCurrency(annualAmount, 4)
         IN  <<[dueDate |-> ToString(taxYear) \o "-04-15", amount |-> installment],
               [dueDate |-> ToString(taxYear) \o "-06-15", amount |-> installment],
               [dueDate |-> ToString(taxYear) \o "-09-15", amount |-> installment],
               [dueDate |-> ToString(taxYear + 1) \o "-01-15", amount |-> installment]>>

\* shared/ids.ts: uuidv7() is time-ordered and never repeats within a
\* process; the n-th identifier the generator hands out is modelled by n.
createId(n) == n

\* The number of createId calls of one buildExplanation.
ExplanationNodes == 6

TransactionIds(transactions) == [i \in 1..Len(transactions) |-> transactions[i].id]

buildExplanation(breakdown, categorizedTransactions, deductionLabel, federalTax, stateTax, stateStatus, generated) ==
    LET IsIncome(t) == t.direction = "INCOME"
        incomeRefs == TransactionIds(SelectSeq(categorizedTransactions, IsIncome))
        expenseRefs == TransactionIds(SelectSeq(categorizedTransactions, detectDeductibleExpense))
    IN  [nodeId |-> createId(generated + 1),
         label |-> "Tax estimate",
         formula |-> "federal tax + state tax",
         inputs |-> [grossIncome |-> breakdown.grossIncome,
                     businessExpenses |-> breakdown.businessExpenses,
                     deductionUsed |-> breakdown.deductionUsed],
         outputs |-> [federalTax |-> federalTax,
                      stateTax |-> stateTax,
                      totalTax |-> breakdown.totalTax],
         transactionRefs |-> <<>>,
         children |->
            <<[nodeId |-> createId(generated + 2),
               label |-> "Income aggregation",
               formula |-> "sum(income sources and income transactions)",
               inputs |-> [incomeTransactions |-> Len(incomeRefs)],
               outputs |-> [grossIncome |-> breakdown.grossIncome],
               children |-> <<>>,
               transactionRefs |-> incomeRefs],
              [nodeId |-> createId(generated + 3),
               label |-> "Business deductions",
               formula |-> "sum(deductible expense transactions)",
               inputs |-> [deductionStrategy |-> deductionLabel],
               outputs |-> [businessExpenses |-> breakdown.businessExpenses],
               children |-> <<>>,
               transactionRefs |-> expenseRefs],
              [nodeId |-> createId(generated + 4),
               label |-> "Federal taxable income",
               formula |-> "gross income - business expenses - SE tax deduction - selected deduction",
               inputs |-> [grossIncome |-> breakdown.grossIncome,
                           businessExpenses |-> breakdown.businessExpenses,
                           selfEmploymentTaxDeduction |-> breakdown.selfEmploymentTaxDeduction,
                           deductionUsed |-> breakdown.deductionUsed],
               outputs |-> [taxableIncomeFederal |-> breakdown.taxableIncomeFederal,
                            federalTax |-> federalTax],
               children |-> <<>>,
               transactionRefs |-> <<>>],
              [nodeId |-> createId(generated + 5),
               label |-> "North Dakota tax",
               formula |-> IF stateTax = NullNum THEN "state computation blocked"
                           ELSE "apply state ruleset brackets",
               inputs |-> [taxableIncomeState |-> breakdown.taxableIncomeState,
                           stateStatus |-> stateStatus],
               outputs |-> [stateTax |-> stateTax],
               children |-> <<>>,
               transactionRefs |-> <<>>],
              [nodeId |-> createId(generated + 6),
               label |-> "Self-employment tax",
               formula |-> IF breakdown.selfEmploymentTax > 0 THEN "Schedule SE style computation"
                           ELSE "no self-employment tax",
               inputs |-> [selfEmploymentTaxDeduction |-> breakdown.selfEmploymentTaxDeduction],
               outputs |-> [selfEmploymentTax |-> breakdown.selfEmploymentTax],
               children |-> <<>>,
               transactionRefs |-> <<>>]>>]

StandardDeductionAssumption ==
    [code |-> "STANDARD_DEDUCTION_APPLIED",
     description |-> "The engine applied the standard deduction because itemized deductions were absent or lower.",
     impactLevel |-> "medium",
     userActionNeeded |-> FALSE]

\* A deduction choice that itemizes an amount equal to the standard deduction.
inferSelectedDeductionStrictlyLower(filingStatus, standardDeductionForced, itemizedAmount, standardDeduction) ==
    IF filingStatus = Null
    THEN [amount |-> 0, label |-> "No deduction selected due to missing filing status", assumption |-> Undefined]
    ELSE IF standardDeductionForced = TRUE \/ itemizedAmount = NullNum \/ Val(itemizedAmount) < standardDeduction
    THEN [amount |-> standardDeduction, label |-> "Standard deduction", assumption |-> Some(StandardDeductionAssumption)]
    ELSE [amount |-> Val(itemizedAmount), label |-> "Itemized deduction", assumption |-> Undefined]

\* A deduction choice that takes the itemized amount whenever one is given.
inferSelectedDeductionItemizedFirst(filingStatus, standardDeductionForced, itemizedAmount, standardDeduction) ==
    IF filingStatus = Null
    THEN [amount |-> 0, label |-> "No deduction selected due to missing filing status",
          assumption |-> Undefined]
    ELSE IF itemizedAmount = NullNum
    THEN [amount |-> 0, label |-> "Itemized deduction", assumption |-> Undefined]
    ELSE [amount |-> Val(itemizedAmount), label |-> "Itemized deduction", assumption |-> Undefined]

inferSelectedDeduction(filingStatus, standardDeductionForced, itemizedAmount, standardDeduction) ==
    IF filingStatus = Null
    THEN [amount |-> 0, label |-> "No deduction selected due to missing filing status",
          assumption |-> Undefined]
    ELSE IF \/ standardDeductionForced = TRUE
            \/ itemizedAmount = NullNum
            \/ Val(itemizedAmount) = 0
            \/ Val(itemizedAmount) <= standardDeduction
    THEN [amount |-> standardDeduction, label |-> "Standard deduction",
          assumption |-> Some(StandardDeductionAssumption)]
    ELSE [amount |-> Val(itemizedAmount), label |-> "Itemized deduction",
          assumption |-> Undefined]

\* Every transaction is categorized again.
NeedsCategoryAlways(transaction) == TRUE

\* calculator.ts:290: if (transaction.categoryCode) return transaction
NeedsCategory(transaction) == transaction.categoryCode = Null

\* The body of the transactions.map callback.
CategorizeForCompute(transaction, input) ==
    IF ~NeedsCategory(transaction) THEN transaction
    ELSE LET suggestion == categorizeTransaction(transaction, input.mappingRules,
                                                 input.userOverrides)
             found == suggestion.kind = "suggestion"
         IN  [id |-> transaction.id,
              month |-> transaction.month,
              amount |-> transaction.amount,
              merchant |-> transaction.merchant,
              description |-> transaction.description,
              direction |-> transaction.direction,
              isReviewed |-> transaction.isReviewed,
              categoryCode |-> IF found THEN suggestion.categoryCode
                               ELSE transaction.categoryCode,
              categoryConfidence |-> IF found THEN Num(suggestion.confidence)
                                     ELSE transaction.categoryConfidence,
              categoryReason |-> IF found THEN suggestion.reason
                                 ELSE transaction.categoryReason,
              categorySource |-> IF found THEN suggestion.source
                                 ELSE transaction.categorySource,
              categorySuggestion |-> suggestion]

CategorizationThrows(input) ==
    \E i \in 1..Len(input.transactions) :
        /\ input.transactions[i].categoryCode = Null
        /\ categorizeTransaction(input.transactions[i], input.mappingRules,
                                 input.userOverrides) = Thrown

\* The dollar floors of the underwithholding flag, in cents
\* (calculator.ts:456 and calculator.ts:459).
UnderwithholdingFloorCents == 100000
UnderwithholdingHighFloorCents == 250000

\* calculator.ts:340-359 with the withholdings assignment of line 492
FederalJurisdiction(filingStatus, federalTax, taxableIncomeFederal, grossIncome, federalWithholding) ==
    IF filingStatus = Null
    THEN [status |-> "BLOCKED_INPUT",
          tax |-> NullNum,
          reasonCode |-> "MISSING_FILING_STATUS",
          reason |-> "Federal income tax requires a filing status.",
          taxableIncome |-> NullNum,
          withholdings |-> Num(federalWithholding),
          effectiveRate |-> NullNum]
    ELSE [status |-> "COMPUTED",
          tax |-> Num(federalTax),
          reasonCode |-> Null,
          reason |-> Null,
          taxableIncome |-> Num(taxableIncomeFederal),
          withholdings |-> Num(federalWithholding),
          effectiveRate |-> IF grossIncome > 0
                            THEN Num(roundCurrency(100 * federalTax, grossIncome))
                            ELSE NullNum]

\* A state tax that reads the SINGLE table for every filing status.
StateTaxSingleTable(filingStatus, stateRuleset, taxableIncomeFederal) ==
    IF \/ filingStatus = Null
       \/ ~stateRuleset.computable
       \/ stateRuleset.brackets = Undefined
    THEN NullNum
    ELSE Num(computeBracketTax(taxableIncomeFederal, Val(stateRuleset.brackets)["SINGLE"]))

\* calculator.ts:361-364
StateTax(filingStatus, stateRuleset, taxableIncomeFederal) ==
    IF \/ filingStatus = Null
       \/ ~stateRuleset.computable
       \/ stateRuleset.brackets = Undefined
    THEN NullNum
    ELSE Num(computeBracketTax(taxableIncomeFederal, Val(stateRuleset.brackets)[filingStatus]))

\* calculator.ts:365-390 with the withholdings assignment of line 493
StateJurisdiction(stateRuleset, stateTax, scope, taxableIncomeFederal, grossIncome, stateWithholding) ==
    IF stateRuleset.computable /\ stateTax # NullNum
    THEN [status |-> "COMPUTED",
          tax |-> stateTax,
          reasonCode |-> Null,
          reason |-> Null,
          taxableIncome |-> Num(taxableIncomeFederal),
          withholdings |-> Num(stateWithholding),
          effectiveRate |-> IF grossIncome > 0
                            THEN Num(roundCurrency(100 * Val(stateTax), grossIncome))
                            ELSE NullNum]
    ELSE [status |-> IF scope.status = "OUT_OF_SCOPE" THEN "OUT_OF_SCOPE"
                     ELSE "BLOCKED_RULESET",
          tax |-> NullNum,
          reasonCode |-> IF stateRuleset.computable
                         THEN "OUT_OF_SCOPE_CASE_DETECTED" ELSE "STATE_RULESET_STALE",
          reason |-> IF stateRuleset.computable
                     THEN JoinWithSpace(scope.reasons)
                     ELSE IF stateRuleset.staleness = Undefined
                     THEN "State ruleset is not computable."
                     ELSE Val(stateRuleset.staleness).reason,
          taxableIncome |-> NullNum,
          withholdings |-> Num(stateWithholding),
          effectiveRate |-> NullNum]

\* An overall status that looks at the state result and the scope only.
EstimateStatusIgnoringFederal(federalStatus, stateStatus, scopeStatus) ==
    IF stateStatus = "BLOCKED_RULESET" THEN "BLOCKED"
    ELSE IF scopeStatus = "IN_SCOPE" THEN "FULL"
    ELSE "PARTIAL"

\* calculator.ts:495-500
EstimateStatus(federalStatus, stateStatus, scopeStatus) ==
    IF federalStatus # "COMPUTED" \/ stateStatus = "BLOCKED_RULESET" THEN "BLOCKED"
    ELSE IF scopeStatus = "IN_SCOPE" THEN "FULL"
    ELSE "PARTIAL"

\* A watermark that is attached to blocked estimates only.
EstimateWatermarkBlockedOnly(estimateStatus, scope) ==
    IF estimateStatus # "BLOCKED" THEN Null
    ELSE "Blocked estimate." \o " " \o scope.recommendedNextStep

\* calculator.ts:501-504
EstimateWatermark(estimateStatus, scope) ==
    IF estimateStatus = "FULL" THEN Null
    ELSE (IF estimateStatus = "BLOCKED" THEN "Blocked estimate."
          ELSE "Partial estimate only.")
         \o " " \o scope.recommendedNextStep

\* computeTaxEstimate(input); generated is the number of identifiers the id
\* generator has handed out so far.
\* calculator.ts:289-303: input.transactions.map
CategorizeAll(input) ==
    [i \in 1..Len(input.transactions) |-> CategorizeForCompute(input.transactions[i], input)]

\* calculator.ts:305-321 and the sums of lines 432-440: the values computed
\* from the input and the categorized transactions alone
Totals(input, categorizedTransactions) ==
    LET IsConfirmed(d) == d.isConfirmed
        explicitDeductions == SelectSeq(input.deductions, IsConfirmed)
        deductibleSeq == SelectSeq(categorizedTransactions, detectDeductibleExpense)
        deductibleExpenses ==
            SumSeq([i \in 1..Len(deductibleSeq) |-> Abs(deductibleSeq[i].amount)])
    IN  [categorizedTransactions |-> categorizedTransactions,
         scopeContext |-> evaluateScope(input.profile),
         completeness |-> evaluateCompleteness(input.profile, input.incomes,
                                               categorizedTransactions),
         businessExpenses |->
            roundCurrency(deductibleExpenses
                + SumSeq([i \in 1..Len(explicitDeductions) |-> explicitDeductions[i].amount]), 1),
         grossIncome |-> roundCurrency(SumSeq(IncomeAmounts(input.incomes)), 1),
         filingStatus |-> input.profile.filingStatus,
         standardDeduction |->
            IF input.profile.filingStatus # Null
            THEN input.federalRuleset.standardDeduction[input.profile.filingStatus]
            ELSE 0,
         federalWithholding |->
            roundCurrency(SumSeq([i \in 1..Len(input.incomes) |->
                                     input.incomes[i].taxWithheldFederal]), 1),
         stateWithholding |->
            roundCurrency(SumSeq([i \in 1..Len(input.incomes) |->
                                     input.incomes[i].taxWithheldState]), 1),
         estimatedPaymentsTotal |->
            roundCurrency(SumSeq([i \in 1..Len(input.estimatedPayments) |->
                                     input.estimatedPayments[i].amount]), 1)]

\* calculator.ts:322-328
Deductions(input, t) ==
    t @@ [selfEmploymentComputation |->
              computeSelfEmploymentTax(t.filingStatus, t.grossIncome, t.businessExpenses, input),
          selectedDeduction |->
              inferSelectedDeduction(t.filingStatus, input.profile.standardDeductionForced,
                                     input.profile.itemizedDeductionAmount,
                                     t.standardDeduction)]

\* calculator.ts:330-339 and 361-364
Liability(input, d) ==
    LET adjustedGrossIncome ==
            roundCurrency(Max(0, d.grossIncome - d.businessExpenses
                                     - d.selfEmploymentComputation.deduction), 1)
        taxableIncomeFederal ==
            roundCurrency(Max(0, adjustedGrossIncome - d.selectedDeduction.amount), 1)
        selfEmploymentTotal ==
            IF d.selfEmploymentComputation.details = Undefined THEN 0
            ELSE Val(d.selfEmploymentComputation.details).total
        federalIncomeTax ==
            IF d.filingStatus = Null THEN 0
            ELSE computeBracketTax(taxableIncomeFederal,
                                   input.federalRuleset.brackets[d.filingStatus])
    IN  d @@ [taxableIncomeFederal |-> taxableIncomeFederal,
              selfEmploymentTotal |-> selfEmploymentTotal,
              federalTax |-> roundCurrency(federalIncomeTax + selfEmploymentTotal, 1),
              stateTax |-> StateTax(d.filingStatus, input.stateRuleset, taxableIncomeFederal)]

\* calculator.ts:340-422 and 441-443; riskFlagsAtConfidence is the riskFlags
\* array as it is when evaluateConfidence reads it
Jurisdictions(input, l) ==
    l @@ [federal |->
              FederalJurisdiction(l.filingStatus, l.federalTax, l.taxableIncomeFederal,
                                  l.grossIncome, l.federalWithholding),
          state |->
              StateJurisdiction(input.stateRuleset, l.stateTax, l.scopeContext.scope,
                                l.taxableIncomeFederal, l.grossIncome, l.stateWithholding),
          assumptions |->
              l.scopeContext.assumptions
              \o (IF l.selectedDeduction.assumption # Undefined
                  THEN <<Val(l.selectedDeduction.assumption)>> ELSE <<>>)
              \o (IF input.stateRuleset.computable /\ input.profile.residentState = "ND"
                  THEN <<[code |-> "ND_2026_RATE_SCHEDULE_APPLIED",
                          description |-> "North Dakota 2026 state tax uses the official 2026 ND-1ES rate schedule. ND-specific additions, subtractions, and credits still follow the currently modeled 2025 instruction surface where separately supported.",
                          impactLevel |-> "medium",
                          userActionNeeded |-> FALSE]>>
                  ELSE <<>>),
          selfEmploymentTaxEstimateRange |->
              IF l.selfEmploymentComputation.estimateRange # Undefined
              THEN l.selfEmploymentComputation.estimateRange
              ELSE estimateSelfEmploymentTaxRange(
                       l.selfEmploymentComputation.netSelfEmploymentIncome),
          riskFlagsAtConfidence |->
              l.scopeContext.flags
              \o buildRiskFlags(l.scopeContext.scope, input.incomes, l.categorizedTransactions,
                                input.stateRuleset)
              \o (IF /\ l.selfEmploymentComputation.hasSelfEmploymentIncome
                     /\ l.selfEmploymentTotal > 0
                  THEN <<[code |-> "ESTIMATED_PAYMENTS_RECOMMENDED",
                          severity |-> "medium",
                          explanation |-> "Self-employment income usually requires quarterly estimated payments to avoid underpayment surprises.",
                          suggestedFix |-> "Use the quarterly payment recommendation and record estimated payments as they are made."]>>
                  ELSE <<>>),
          federalBalanceDue |->
              roundCurrency(l.federalTax - l.federalWithholding - l.estimatedPaymentsTotal, 1),
          stateBalanceDue |->
              IF l.stateTax = NullNum THEN NullNum
              ELSE Num(roundCurrency(Val(l.stateTax) - l.stateWithholding, 1))]

\* calculator.ts:424-430, 444 and 495-500
Scores(input, j) ==
    j @@ [confidence |->
              evaluateConfidence(j.completeness, input.incomes, j.categorizedTransactions,
                                 j.riskFlagsAtConfidence, input.stateRuleset.computable),
          totalBalanceDue |->
              IF j.stateBalanceDue = NullNum THEN NullNum
              ELSE Num(roundCurrency(j.federalBalanceDue + Val(j.stateBalanceDue), 1)),
          estimateStatus |->
              EstimateStatus(j.federal.status, j.state.status, j.scopeContext.scope.status)]

\* calculator.ts:445-468 and 501-504; balanceBasis is totalBalanceDue ??
\* federalBalanceDue, and the flag condition is federalBalanceDue >
\* Math.max(1000, grossIncome * 0.05), with 2500 and 0.1 for high severity
Recommendations(input, s) ==
    LET balanceBasis ==
            IF s.totalBalanceDue = NullNum THEN s.federalBalanceDue ELSE Val(s.totalBalanceDue)
    IN  s @@ [monthlySetAsideRecommendation |->
                  IF balanceBasis <= 0 THEN 0 ELSE roundCurrency(balanceBasis, 12),
              quarterlyEstimatedPaymentRecommendation |->
                  IF balanceBasis <= 0 THEN 0 ELSE roundCurrency(balanceBasis, 4),
              estimatedPaymentPlan |->
                  buildEstimatedPaymentPlan(input.profile.taxYear, Max(0, balanceBasis)),
              riskFlags |->
                  s.riskFlagsAtConfidence
                  \o (IF 100 * s.federalBalanceDue
                           > Max(100 * UnderwithholdingFloorCents, 5 * s.grossIncome)
                      THEN <<[code |-> "UNDERWITHHOLDING_RISK",
                              severity |-> IF 100 * s.federalBalanceDue
                                                > Max(100 * UnderwithholdingHighFloorCents,
                                                      10 * s.grossIncome)
                                           THEN "high" ELSE "medium",
                              explanation |-> "Current withholding and estimated payments may be too low relative to the projected federal liability.",
                              suggestedFix |-> "Increase withholding or make estimated payments during the year.",
                              evidence |-> [federalBalanceDue |-> s.federalBalanceDue,
                                            federalWithholding |-> s.federalWithholding,
                                            estimatedPaymentsTotal |-> s.estimatedPaymentsTotal]]>>
                      ELSE <<>>),
              estimateWatermark |-> EstimateWatermark(s.estimateStatus, s.scopeContext.scope)]

\* A total that falls back to the federal tax when there is no state tax.
TotalTaxFederalFallback(federalTax, stateTax) ==
    IF stateTax = NullNum THEN Num(federalTax)
    ELSE Num(roundCurrency(federalTax + Val(stateTax), 1))

\* calculator.ts:473
TotalTax(federalTax, stateTax) ==
    IF stateTax = NullNum THEN NullNum
    ELSE Num(roundCurrency(federalTax + Val(stateTax), 1))

\* calculator.ts:470-491
Breakdown(r) ==
    [federalTax |-> r.federalTax,
     stateTax |-> r.stateTax,
     totalTax |-> TotalTax(r.federalTax, r.stateTax),
     taxableIncomeFederal |-> r.taxableIncomeFederal,
     taxableIncomeState |-> IF r.stateTax = NullNum THEN NullNum
                            ELSE Num(r.taxableIncomeFederal),
     grossIncome |-> r.grossIncome,
     businessExpenses |-> r.businessExpenses,
     deductionUsed |-> r.selectedDeduction.amount,
     federalWithholding |-> r.federalWithholding,
     stateWithholding |-> r.stateWithholding,
     estimatedPayments |-> r.estimatedPaymentsTotal,
     federalBalanceDue |-> r.federalBalanceDue,
     stateBalanceDue |-> r.stateBalanceDue,
     totalBalanceDue |-> r.totalBalanceDue,
     monthlySetAsideRecommendation |-> r.monthlySetAsideRecommendation,
     quarterlyEstimatedPaymentRecommendation |-> r.quarterlyEstimatedPaymentRecommendation,
     selfEmploymentTax |-> r.selfEmploymentTotal,
     selfEmploymentTaxDeduction |-> r.selfEmploymentComputation.deduction,
     selfEmploymentTaxDetails |-> r.selfEmploymentComputation.details,
     selfEmploymentTaxEstimateRange |-> r.selfEmploymentTaxEstimateRange]

\* calculator.ts:506-532
Output(input, generated, r, breakdown) ==
    LET IsOutOfScopeReason(code) == code # "SUPPORTED_CASE"
    IN  [kind |-> "output",
         scope |-> r.scopeContext.scope,
         outOfScopeReasons |-> SelectSeq(r.scopeContext.scope.reasonCodes, IsOutOfScopeReason),
         estimateStatus |-> r.estimateStatus,
         estimateWatermark |-> r.estimateWatermark,
         federal |-> r.federal,
         state |-> r.state,
         breakdown |-> breakdown,
         explanation |-> buildExplanation(breakdown, r.categorizedTransactions,
                                          r.selectedDeduction.label, r.federalTax,
                                          r.stateTax, r.state.status, generated),
         assumptions |-> r.assumptions,
         completeness |-> r.completeness,
         confidence |-> r.confidence,
         riskFlags |-> r.riskFlags,
         estimatedPaymentPlan |-> r.estimatedPaymentPlan,
         categorizedTransactions |-> r.categorizedTransactions,
         rulesets |-> [federalVersion |-> input.federalRuleset.id,
                       stateVersion |-> input.stateRuleset.id]]

Estimate(input, generated, r) == Output(input, generated, r, Breakdown(r))

\* The statements of computeTaxEstimate in source order; a SyntaxError of the
\* categorization leaves the function before any of them.
computeTaxEstimate(input, generated) ==
    IF CategorizationThrows(input) THEN Thrown
    ELSE Estimate(input, generated,
             Recommendations(input,
                 Scores(input,
                     Jurisdictions(input,
                         Liability(input,
                             Deductions(input,
                                 Totals(input, CategorizeAll(input))))))))

----------------------------------------------------------------------------
(* Inputs of computeTaxEstimate.                                            *)

MaxIncomes == 2
MaxTransactions == 2
MaxCalls == 2

FilingStatuses == {"SINGLE", "MARRIED_FILING_JOINTLY"}

\* A federal ruleset document: amounts in cents, rates in percent.
FederalRuleset ==
    [id |-> "IRS-2026.1",
     jurisdiction |-> "federal",
     standardDeduction |-> [SINGLE |-> 165500, MARRIED_FILING_JOINTLY |-> 1000000],
     brackets |->
        [SINGLE |->
            <<[min |-> 0, max |-> Num(124000), rate |-> 10],
              [min |-> 124000, max |-> Num(504000), rate |-> 12],
              [min |-> 504000, max |-> NullNum, rate |-> 22]>>,
         MARRIED_FILING_JOINTLY |->
            <<[min |-> 0, max |-> Num(248000), rate |-> 10],
              [min |-> 248000, max |-> Num(1008000), rate |-> 12],
              [min |-> 1008000, max |-> NullNum, rate |-> 22]>>],
     selfEmploymentTax |->
        [netEarningsFactor |-> 92,
         socialSecurityRate |-> 12,
         medicareRate |-> 3,
         additionalMedicareRate |-> 1,
         socialSecurityWageBase |-> 1000000,
         additionalMedicareThreshold |->
            [SINGLE |-> 1100000, MARRIED_FILING_JOINTLY |-> 1400000]]]

StateBrackets ==
    [SINGLE |->
        <<[min |-> 0, max |-> Num(480000), rate |-> 0],
          [min |-> 480000, max |-> NullNum, rate |-> 2]>>,
     MARRIED_FILING_JOINTLY |->
        <<[min |-> 0, max |-> Num(800000), rate |-> 0],
          [min |-> 800000, max |-> NullNum, rate |-> 2]>>]

ValidatedStateRuleset ==
    [id |-> "ND-2026.2", jurisdiction |-> "state", computable |-> TRUE,
     brackets |-> Some(StateBrackets), staleness |-> Undefined]

StaleStateRuleset ==
    [id |-> "ND-2025.1", jurisdiction |-> "state", computable |-> FALSE,
     brackets |-> Undefined,
     staleness |-> Some([reason |-> "Awaiting the 2026 ND rate schedule.",
                         action |-> "Validate the ND-2026 ruleset."])]

\* computable is set but the optional bracket table is missing
TablelessStateRuleset ==
    [id |-> "ND-2026.0", jurisdiction |-> "state", computable |-> TRUE,
     brackets |-> Undefined, staleness |-> Undefined]

StateRulesets == {ValidatedStateRuleset, StaleStateRuleset, TablelessStateRuleset}

AdvancedAttributeChoices ==
    {[hasForeignIncome |-> f, hasK1 |-> k, hasAdvancedInvestments |-> v,
      hasAdvancedDepreciation |-> d] :
        <<f, k, v, d>> \in {<<FALSE, FALSE, FALSE, FALSE>>, <<TRUE, FALSE, FALSE, FALSE>>,
                            <<FALSE, TRUE, FALSE, FALSE>>, <<FALSE, FALSE, TRUE, FALSE>>,
                            <<FALSE, FALSE, FALSE, TRUE>>}}

Profile(filingStatus, residentState, fullYear, advanced, forced, itemized) ==
    [userId |-> "user-1",
     taxYear |-> 2026,
     filingStatus |-> filingStatus,
     residentState |-> residentState,
     isFullYearResident |-> fullYear,
     standardDeductionForced |-> forced,
     itemizedDeductionAmount |-> itemized,
     hasForeignIncome |-> advanced.hasForeignIncome,
     hasK1 |-> advanced.hasK1,
     hasAdvancedInvestments |-> advanced.hasAdvancedInvestments,
     hasAdvancedDepreciation |-> advanced.hasAdvancedDepreciation]

DeductionPreferences ==
    {<<FALSE, NullNum>>, <<FALSE, Num(90000)>>, <<FALSE, Num(165500)>>,
     <<FALSE, Num(200000)>>, <<TRUE, Num(200000)>>}

AllProfiles ==
    {Profile(fs, rs, fy, adv, pref[1], pref[2]) :
        fs \in FilingStatuses \cup {Null},
        rs \in {"ND", "MN"},
        fy \in BOOLEAN,
        adv \in AdvancedAttributeChoices,
        pref \in DeductionPreferences}

NoAdvancedAttributes ==
    [hasForeignIncome |-> FALSE, hasK1 |-> FALSE, hasAdvancedInvestments |-> FALSE,
     hasAdvancedDepreciation |-> FALSE]

\* The in-scope profile of every filing status.
PlainProfiles ==
    {Profile(fs, "ND", TRUE, NoAdvancedAttributes, FALSE, NullNum) :
        fs \in FilingStatuses \cup {Null}}

IncomeChoices ==
    {[type |-> "W2", label |-> "Employer W-2", amount |-> 900000,
      taxWithheldFederal |-> 80000, taxWithheldState |-> 2000, isConfirmed |-> TRUE],
     [type |-> "BUSINESS_GROSS", label |-> "Business gross receipts", amount |-> 1200000,
      taxWithheldFederal |-> 0, taxWithheldState |-> 0, isConfirmed |-> FALSE],
     [type |-> "FORM_1099_NEC", label |-> "Client 1099-NEC", amount |-> 300033,
      taxWithheldFederal |-> 0, taxWithheldState |-> 0, isConfirmed |-> TRUE]}

TransactionChoices ==
    {[month |-> 2, amount |-> 200000, merchant |-> "Amazon Business",
      description |-> "Office chairs", direction |-> "EXPENSE", isReviewed |-> FALSE,
      categoryCode |-> Null, categoryConfidence |-> NullNum, categoryReason |-> Null,
      categorySource |-> Null],
     [month |-> 6, amount |-> -4550, merchant |-> "Staples",
      description |-> "Team LUNCH", direction |-> "EXPENSE", isReviewed |-> TRUE,
      categoryCode |-> "MEALS", categoryConfidence |-> Num(100),
      categoryReason |-> "Confirmed by user.", categorySource |-> "USER"],
     [month |-> 9, amount |-> 500000, merchant |-> Null,
      description |-> "Client payout", direction |-> "INCOME", isReviewed |-> FALSE,
      categoryCode |-> Null, categoryConfidence |-> NullNum, categoryReason |-> Null,
      categorySource |-> Null],
     [month |-> 11, amount |-> 30000, merchant |-> Null,
      description |-> "Wire 4471", direction |-> "EXPENSE", isReviewed |-> FALSE,
      categoryCode |-> Null, categoryConfidence |-> NullNum, categoryReason |-> Null,
      categorySource |-> Null]}

\* Records as the service hands them over: each carries its row identifier.
WithIds(prefix, records) ==
    [i \in 1..Len(records) |-> [id |-> prefix \o ToString(i)] @@ records[i]]

DeductionChoices ==
    {<<>>,
     <<[id |-> "ded-1", code |-> "HOME_OFFICE", label |-> "Home office", amount |-> 120000,
        isConfirmed |-> TRUE],
       [id |-> "ded-2", code |-> "VEHICLE", label |-> "Vehicle", amount |-> 50000,
        isConfirmed |-> FALSE]>>}

EstimatedPaymentChoices ==
    {<<>>,
     <<[id |-> "pay-1", kind |-> "ESTIMATED_QUARTERLY", quarter |-> 1, amount |-> 150000]>>}

\* mappingRules are defaultCategoryRules (valid patterns) and stored user
\* overrides are escaped merchant names (app.ts:491-497).
ComputeRules ==
    <<[code |-> "OFFICE_SUPPLIES", vendorPattern |-> "amazon|staples", keywordPattern |-> Null,
       amountMin |-> NullNum, amountMax |-> NullNum, confidenceBase |-> 86,
       reason |-> "Vendor pattern indicates office supplies."],
      [code |-> "GROSS_RECEIPTS", vendorPattern |-> Null, keywordPattern |-> "payout",
       amountMin |-> NullNum, amountMax |-> NullNum, confidenceBase |-> 75,
       reason |-> "Description suggests revenue intake."]>>

ComputeOverrides ==
    <<[vendorPattern |-> "amazon|staples", keywordPattern |-> Null,
       categoryOverride |-> "PERSONAL"]>>

RuleSetups == {<<ComputeRules, <<>>>>, <<ComputeRules, ComputeOverrides>>}

Ledgers ==
    {[incomes |-> WithIds("income-", incomes),
      transactions |-> WithIds("tx-", transactions),
      deductions |-> deductions,
      estimatedPayments |-> payments,
      mappingRules |-> setup[1],
      userOverrides |-> setup[2]] :
        incomes \in SeqUpTo(IncomeChoices, MaxIncomes),
        transactions \in SeqUpTo(TransactionChoices, MaxTransactions),
        deductions \in DeductionChoices,
        payments \in EstimatedPaymentChoices,
        setup \in RuleSetups}

\* The ledgers every profile is combined with.
SampleLedgers ==
    {l \in Ledgers :
        /\ l.deductions = <<>>
        /\ l.estimatedPayments = <<>>
        /\ l.mappingRules = ComputeRules
        /\ l.userOverrides = <<>>
        /\ Len(l.incomes) <= 1
        /\ Len(l.transactions) <= 1
        /\ \A i \in 1..Len(l.incomes) : l.incomes[i].type # "FORM_1099_NEC"
        /\ \A i \in 1..Len(l.transactions) : l.transactions[i].month \in {2, 6}}

ComputationInput(profile, ledger, stateRuleset) ==
    [profile |-> profile,
     incomes |-> ledger.incomes,
     estimatedPayments |-> ledger.estimatedPayments,
     transactions |-> ledger.transactions,
     deductions |-> ledger.deductions,
     mappingRules |-> ledger.mappingRules,
     userOverrides |-> ledger.userOverrides,
     federalRuleset |-> FederalRuleset,
     stateRuleset |-> stateRuleset]

\* Every profile and state ruleset with the sample ledgers, and every ledger
\* with the plain profiles.
IsComputationInput(candidate) ==
    \/ \E p \in AllProfiles, l \in SampleLedgers, r \in StateRulesets :
           candidate = ComputationInput(p, l, r)
    \/ \E p \in PlainProfiles, l \in Ledgers :
           candidate = ComputationInput(p, l, ValidatedStateRuleset)

NoOutput == [kind |-> "none"]

NoInput == [profile |-> Null]

CalcIdle ==
    /\ snapshot = NoInput
    /\ out = NoOutput
    /\ prevOut = NoOutput
    /\ idsIssued = 0
    /\ calls = 0

CalcInit ==
    /\ IsComputationInput(snapshot)
    /\ out = NoOutput
    /\ prevOut = NoOutput
    /\ idsIssued = 0
    /\ calls = 0

\* One call of computeTaxEstimate on the snapshot.
Compute ==
    /\ calls < MaxCalls
    /\ out' = computeTaxEstimate(snapshot, idsIssued)
    /\ prevOut' = out
    /\ idsIssued' = IF out'.kind = "output" THEN idsIssued + ExplanationNodes ELSE idsIssued
    /\ calls' = calls + 1
    /\ UNCHANGED <<snapshot, brVars, catVars, loaderVars, serviceVars>>

----------------------------------------------------------------------------
(* Ruleset loader.  A ruleset file is a JSON text: an ordered list of        *)
(* key/value members plus insignificant whitespace.  The HMAC is idealised   *)
(* as an injective function of the secret and of the signed text.            *)

RULESET_SIGNING_SECRET == "local-dev-ruleset-secret"

OtherSecret == "another-secret"

SignatureKey == "rulesetSignature"

\* JSON.stringify of an object: its members in insertion order
RECURSIVE StringifyMembers(_)
StringifyMembers(members) ==
    IF members = <<>> THEN ""
    ELSE Head(members)[1] \o ":" \o Head(members)[2]
         \o (IF Len(members) > 1 THEN "," ELSE "")
         \o StringifyMembers(Tail(members))

JSONStringify(payload) == "{" \o StringifyMembers(payload) \o "}"

\* JSON.parse keeps the members and drops the whitespace
JSONParse(contents) == contents.members

readJsonFile(disk, filePath) == JSONParse(disk[filePath])

createHmac(secret, text) == "hmac[" \o secret \o "](" \o text \o ")"

signRulesetPayload(payload) == createHmac(RULESET_SIGNING_SECRET, JSONStringify(payload))

\* property read: the value of the member, undefined (Null) if absent
Field(document, key) ==
    IF \E i \in 1..Len(document) : document[i][1] = key
    THEN document[CHOOSE i \in 1..Len(document) : document[i][1] = key][2]
    ELSE Null

createRulesetSignatureError(rulesetId) ==
    [kind |-> "error",
     code |-> "RULESET_SIGNATURE_INVALID",
     message |-> "Ruleset signature mismatch for " \o rulesetId]

Verified == [kind |-> "verified"]

\* the object rest { rulesetSignature, ...unsignedPayload }
UnsignedPayload(ruleset) ==
    LET NotSignature(member) == member[1] # SignatureKey
    IN SelectSeq(ruleset, NotSignature)

verifyRulesetSignaturePresenceOnly(ruleset) ==
    IF Field(ruleset, SignatureKey) = Null
    THEN createRulesetSignatureError(Field(ruleset, "id"))
    ELSE Verified

verifyRulesetSignature(ruleset) ==
    LET rulesetSignature == Field(ruleset, SignatureKey)
        expected == signRulesetPayload(UnsignedPayload(ruleset))
    IN IF rulesetSignature # expected
       THEN createRulesetSignatureError(Field(ruleset, "id"))
       ELSE Verified

FederalVersion == "IRS-2026.1"
StateVersion == "ND-2026.2"
UnlistedVersion == "ND-2099.1"

FederalPath == "federal/IRS-2026.1.json"
StatePath == "state/ND-2026.2.json"

RulesetPaths == {FederalPath, StatePath}

\* meta.json: the version index
loadRulesetMeta ==
    [versions |->
        << [id |-> FederalVersion, jurisdiction |-> "federal", path |-> FederalPath],
           [id |-> StateVersion, jurisdiction |-> "state", path |-> StatePath] >>]

\* Array.prototype.find over meta.versions
FindVersion(meta, version) ==
    LET hits == {i \in 1..Len(meta.versions) : meta.versions[i].id = version}
    IN IF hits = {} THEN Undefined
       ELSE Some(meta.versions[CHOOSE i \in hits : \A j \in hits : i <= j])

GenericError(text) == [kind |-> "error", code |-> Null, message |-> text]

LoadedRuleset(ruleset) == [kind |-> "ruleset", ruleset |-> ruleset]

LoadEntry(disk, entry) ==
    LET ruleset == readJsonFile(disk, entry.path)
        verdict == verifyRulesetSignature(ruleset)
    IN IF verdict.kind = "error" THEN verdict ELSE LoadedRuleset(ruleset)

loadFederalRuleset(disk, version) ==
    LET entry == FindVersion(loadRulesetMeta, version)
    IN IF entry = Undefined
       THEN GenericError("Federal ruleset " \o version \o " not found")
       ELSE LoadEntry(disk, Val(entry))

loadStateRuleset(disk, version) ==
    LET entry == FindVersion(loadRulesetMeta, version)
    IN IF entry = Undefined
       THEN GenericError("State ruleset " \o version \o " not found")
       ELSE LoadEntry(disk, Val(entry))

MaxEdits == 2

RequestedVersions == {FederalVersion, StateVersion, UnlistedVersion}

RulesetStatuses == {"validated", "stale"}

MemberValues(key) ==
    CASE key = "id" -> {FederalVersion, StateVersion}
      [] key = "jurisdiction" -> {"federal", "state"}
      [] key = "status" -> RulesetStatuses

PayloadKeys == {"id", "jurisdiction", "status"}

Sign(payload, secret) ==
    payload \o << <<SignatureKey, createHmac(secret, JSONStringify(payload))>> >>

SignedDocument(id, jurisdiction, status) ==
    Sign(<< <<"id", id>>, <<"jurisdiction", jurisdiction>>, <<"status", status>> >>,
         RULESET_SIGNING_SECRET)

FileOf(document) == [members |-> document, whitespace |-> 0]

NoRequest == [loader |-> Null, version |-> Null]

NotLoaded == [kind |-> "none"]

LoaderIdle ==
    /\ files = [filePath \in RulesetPaths |-> FileOf(<<>>)]
    /\ issued = {}
    /\ request = NoRequest
    /\ readDoc = <<>>
    /\ loaded = NotLoaded
    /\ edits = 0

\* the repository's rulesets as published: signed with the signing secret
LoaderInit ==
    /\ \E federalStatus \in RulesetStatuses, stateStatus \in RulesetStatuses :
          files = [filePath \in RulesetPaths |->
                      IF filePath = FederalPath
                      THEN FileOf(SignedDocument(FederalVersion, "federal", federalStatus))
                      ELSE FileOf(SignedDocument(StateVersion, "state", stateStatus))]
    /\ issued = {files[filePath].members : filePath \in RulesetPaths}
    /\ request = NoRequest
    /\ readDoc = <<>>
    /\ loaded = NotLoaded
    /\ edits = 0

DocumentRead(disk, version) ==
    LET entry == FindVersion(loadRulesetMeta, version)
    IN IF entry = Undefined THEN <<>> ELSE readJsonFile(disk, Val(entry).path)

LoadFederal ==
    \E version \in RequestedVersions :
        /\ request' = [loader |-> "loadFederalRuleset", version |-> version]
        /\ readDoc' = DocumentRead(files, version)
        /\ loaded' = loadFederalRuleset(files, version)
        /\ UNCHANGED <<files, issued, edits, brVars, catVars, calcVars, serviceVars>>

LoadState ==
    \E version \in RequestedVersions :
        /\ request' = [loader |-> "loadStateRuleset", version |-> version]
        /\ readDoc' = DocumentRead(files, version)
        /\ loaded' = loadStateRuleset(files, version)
        /\ UNCHANGED <<files, issued, edits, brVars, catVars, calcVars, serviceVars>>

Rewrite(filePath, document) ==
    /\ edits < MaxEdits
    /\ edits' = edits + 1
    /\ files' = [files EXCEPT ![filePath].members = document]
    /\ UNCHANGED <<request, readDoc, loaded, brVars, catVars, calcVars, serviceVars>>

\* a member of the payload gets another value; the signature stays
EditPayload ==
    \E filePath \in RulesetPaths :
        LET document == files[filePath].members
        IN \E i \in 1..Len(document) :
              /\ document[i][1] \in PayloadKeys
              /\ \E value \in MemberValues(document[i][1]) \ {document[i][2]} :
                    Rewrite(filePath, [document EXCEPT ![i] = <<document[i][1], value>>])
              /\ UNCHANGED issued

\* the first two members change places; the signature stays
ReorderPayload ==
    \E filePath \in RulesetPaths :
        LET document == files[filePath].members
        IN /\ Len(document) >= 2
           /\ document[1][1] # SignatureKey
           /\ document[2][1] # SignatureKey
           /\ Rewrite(filePath, [document EXCEPT ![1] = document[2], ![2] = document[1]])
           /\ UNCHANGED issued

\* whitespace between the members changes: other bytes, the same JSON value
ReformatFile ==
    \E filePath \in RulesetPaths :
        /\ edits < MaxEdits
        /\ edits' = edits + 1
        /\ files' = [files EXCEPT ![filePath].whitespace = 1 - @]
        /\ UNCHANGED <<issued, request, readDoc, loaded, brVars, catVars, calcVars, serviceVars>>

\* the holder of the signing secret signs the payload as it now stands
ResignFile ==
    \E filePath \in RulesetPaths :
        LET document == Sign(UnsignedPayload(files[filePath].members), RULESET_SIGNING_SECRET)
        IN /\ document # files[filePath].members
           /\ Rewrite(filePath, document)
           /\ issued' = issued \cup {document}

\* the payload as it now stands is signed with another key
ForgeSignature ==
    \E filePath \in RulesetPaths :
        /\ Rewrite(filePath, Sign(UnsignedPayload(files[filePath].members), OtherSecret))
        /\ UNCHANGED issued

\* the signature of another ruleset file is pasted into this one
CopySignature ==
    \E filePath \in RulesetPaths, other \in RulesetPaths :
        LET document == files[filePath].members
            pasted == UnsignedPayload(document)
                        \o << <<SignatureKey, Field(files[other].members, SignatureKey)>> >>
        IN /\ other # filePath
           /\ pasted # document
           /\ Rewrite(filePath, pasted)
           /\ UNCHANGED issued

----------------------------------------------------------------------------
(* api/idempotency.ts.  A request passes the preHandler in the steps its     *)
(* awaits separate: the lookup, the delete of an expired row, and the        *)
(* answer or the create; then the route handler runs and the reply is sent   *)
(* through the onSend hook or the error handler.                             *)

\* IDEMPOTENCY_TTL_MS = 1000 * 60 * 60 * 24 * 7, in days
IDEMPOTENCY_TTL == 7

MaxRequests == 2
MaxWeeks == 1

RequestIds == 1..MaxRequests

\* The key tuples (userId, method, route, Idempotency-Key) of the requests;
\* the header of a request may be missing.
IdempotencyKeys == {"key-00000001", "key-00000002"}

RequestBodies == {"{amount:1}", "{amount:2}"}

\* sha256 idealised as injective
sha256(text) == "sha256(" \o text \o ")"

\* sha256(JSON.stringify(request.body ?? null)); the body is held as its JSON text
buildRequestHash(body) == sha256(IF body = Null THEN "null" ELSE body)

NewRequest ==
    [pc |-> "new", key |-> Null, body |-> Null, now |-> 0, existing |-> Undefined,
     idempotency |-> Undefined, ranHandler |-> FALSE, statusCode |-> 0, reply |-> Undefined]

Reply(code, body) == Some([code |-> code, body |-> body])

ErrorBody(code) == "{code:" \o code \o "}"

\* prisma.idempotencyRecord.findUnique on the key tuple
FindUnique(table, key) ==
    IF \E row \in table : row.key = key
    THEN Some(CHOOSE row \in table : row.key = key)
    ELSE Undefined

RowExists(table, id) == \E row \in table : row.id = id

\* idempotency.ts:58 and 66
IsExpired(existing, now) == existing # Undefined /\ Val(existing).expiresAt <= now

IsActive(existing, now) == existing # Undefined /\ Val(existing).expiresAt > now

\* A reply to a matching record that ignores the payload hash.
ActiveReplyIgnoringPayload(active, requestHash, key) ==
    IF active.status = "COMPLETED"
    THEN Reply(IF active.responseCode = NullNum THEN 200 ELSE Val(active.responseCode),
               active.responseJson)
    ELSE Reply(202, ErrorBody("IDEMPOTENCY_IN_FLIGHT"))

\* idempotency.ts:68-94: the reply to a request that matches an active record
ActiveReply(active, requestHash, key) ==
    IF active.payloadHash # requestHash
    THEN Reply(409, ErrorBody("IDEMPOTENCY_CONFLICT"))
    ELSE IF active.status = "COMPLETED"
    THEN Reply(IF active.responseCode = NullNum THEN 200 ELSE Val(active.responseCode),
               active.responseJson)
    ELSE Reply(202, ErrorBody("IDEMPOTENCY_IN_FLIGHT"))

\* app.ts:123-147: the reply of the error handler to an error thrown by a
\* Prisma call (no statusCode: 500)
InternalError == Reply(500, ErrorBody("INTERNAL_ERROR"))

IdemIdle ==
    /\ idemRecords = {}
    /\ idemNextId = 0
    /\ requests = <<>>
    /\ handlerRuns = <<>>
    /\ clock = 0

IdemInit ==
    /\ idemRecords = {}
    /\ idemNextId = 1
    /\ requests = [r \in RequestIds |-> NewRequest]
    /\ handlerRuns = [key \in IdempotencyKeys |-> 0]
    /\ clock = 0

IdemOthers == <<brVars, catVars, calcVars, loaderVars, importVars, authVars>>

\* idempotency.ts:17-56: the header check and the lookup
Receive(r) ==
    /\ requests[r].pc = "new"
    /\ \E key \in IdempotencyKeys \cup {Null}, body \in RequestBodies :
          IF key = Null
          THEN requests' = [requests EXCEPT ![r] =
                   [@ EXCEPT !.pc = "done", !.body = body,
                             !.reply = Reply(400, ErrorBody("IDEMPOTENCY_KEY_REQUIRED"))]]
          ELSE LET existing == FindUnique(idemRecords, key)
               IN  requests' = [requests EXCEPT ![r] =
                       [@ EXCEPT !.pc = IF IsExpired(existing, clock) THEN "expired"
                                        ELSE "looked",
                                 !.key = key, !.body = body, !.now = clock,
                                 !.existing = existing]]
    /\ UNCHANGED <<idemRecords, idemNextId, handlerRuns, clock, IdemOthers>>

\* idempotency.ts:58-64: delete by id; the delete of a row that is gone throws
DeleteExpired(r) ==
    /\ requests[r].pc = "expired"
    /\ LET id == Val(requests[r].existing).id
       IN  IF RowExists(idemRecords, id)
           THEN /\ idemRecords' = {row \in idemRecords : row.id # id}
                /\ requests' = [requests EXCEPT ![r].pc = "looked"]
           ELSE /\ idemRecords' = idemRecords
                /\ requests' = [requests EXCEPT ![r] =
                       [@ EXCEPT !.pc = "done", !.reply = InternalError]]
    /\ UNCHANGED <<idemNextId, handlerRuns, clock, IdemOthers>>

\* A table without the unique index on the key tuple.
NoUniqueIndex(table, key) == FALSE

\* CREATE UNIQUE INDEX IdempotencyRecord_userId_method_route_idempotencyKey_key
ViolatesUniqueIndex(table, key) == \E row \in table : row.key = key

\* idempotency.ts:66-113: the reply to a match, or the create; the create of
\* a second row for one key tuple violates the unique index and throws
Answer(r) ==
    /\ requests[r].pc = "looked"
    /\ LET req == requests[r]
           requestHash == buildRequestHash(req.body)
       IN  IF IsActive(req.existing, req.now)
           THEN /\ requests' = [requests EXCEPT ![r] =
                       [@ EXCEPT !.pc = "done",
                                 !.reply = ActiveReply(Val(req.existing), requestHash, req.key)]]
                /\ UNCHANGED <<idemRecords, idemNextId>>
           ELSE IF ViolatesUniqueIndex(idemRecords, req.key)
           THEN /\ requests' = [requests EXCEPT ![r] =
                       [@ EXCEPT !.pc = "done", !.reply = InternalError]]
                /\ UNCHANGED <<idemRecords, idemNextId>>
           ELSE /\ idemRecords' = idemRecords \cup
                       {[id |-> idemNextId, key |-> req.key, payloadHash |-> requestHash,
                         status |-> "PROCESSING", responseCode |-> NullNum,
                         responseJson |-> Null,
                         expiresAt |-> req.now + IDEMPOTENCY_TTL]}
                /\ idemNextId' = idemNextId + 1
                /\ requests' = [requests EXCEPT ![r] =
                       [@ EXCEPT !.pc = "handling",
                                 !.idempotency = Some([recordId |-> idemNextId,
                                                       route |-> "/v1/incomes",
                                                       requestHash |-> requestHash])]]
    /\ UNCHANGED <<handlerRuns, clock, IdemOthers>>

\* The route handler: its side effect happens, and it returns or throws.
RunHandler(r) ==
    /\ requests[r].pc = "handling"
    /\ \E statusCode \in {200, 400} :
          requests' = [requests EXCEPT ![r] =
              [@ EXCEPT !.pc = "sending", !.ranHandler = TRUE, !.statusCode = statusCode]]
    /\ handlerRuns' = [handlerRuns EXCEPT ![requests[r].key] = @ + 1]
    /\ UNCHANGED <<idemRecords, idemNextId, clock, IdemOthers>>

\* app.ts:131: (request as any).idempotency?.key
HasIdempotencyKeyField(req) ==
    req.idempotency # Undefined /\ "key" \in DOMAIN Val(req.idempotency)

\* idempotency.ts:134-148: updateMany PROCESSING -> FAILED
clearIdempotentProcessing(table, req) ==
    {IF row.id = Val(req.idempotency).recordId /\ row.status = "PROCESSING"
     THEN [row EXCEPT !.status = "FAILED"] ELSE row : row \in table}

\* idempotency.ts:120-129: update by id
CompleteRecord(table, id, code, payload) ==
    {IF row.id = id
     THEN [row EXCEPT !.status = "COMPLETED", !.responseCode = Num(code),
                      !.responseJson = payload]
     ELSE row : row \in table}

\* The handler's reply leaves: through the error handler (app.ts:123-147) when
\* it threw, and through persistIdempotentResponse (idempotency.ts:115-132).
\* The update of a row that is gone throws.
Send(r) ==
    /\ requests[r].pc = "sending"
    /\ LET req == requests[r]
           id == Val(req.idempotency).recordId
           payload == "{created:" \o req.body \o "}"
       IN  IF req.statusCode >= 400
           THEN /\ idemRecords' = IF HasIdempotencyKeyField(req)
                                  THEN clearIdempotentProcessing(idemRecords, req)
                                  ELSE idemRecords
                /\ requests' = [requests EXCEPT ![r] =
                       [@ EXCEPT !.pc = "done",
                                 !.reply = Reply(req.statusCode, ErrorBody("REQUEST_ERROR"))]]
           ELSE IF RowExists(idemRecords, id)
           THEN /\ idemRecords' = CompleteRecord(idemRecords, id, req.statusCode, payload)
                /\ requests' = [requests EXCEPT ![r] =
                       [@ EXCEPT !.pc = "done", !.reply = Reply(req.statusCode, payload)]]
           ELSE /\ idemRecords' = idemRecords
                /\ requests' = [requests EXCEPT ![r] =
                       [@ EXCEPT !.pc = "done", !.reply = InternalError]]
    /\ UNCHANGED <<idemNextId, handlerRuns, clock, IdemOthers>>

\* A week passes: every record written so far is past its expiresAt.
WeekPasses ==
    /\ clock < MaxWeeks * IDEMPOTENCY_TTL
    /\ clock' = clock + IDEMPOTENCY_TTL
    /\ UNCHANGED <<idemRecords, idemNextId, requests, handlerRuns, IdemOthers>>

----------------------------------------------------------------------------
(* services/import-service.ts: importBankCsv.  An import goes through its    *)
(* data rows in order; the lookup of a fingerprint and the creation of the   *)
(* fingerprint and of the transaction are separate awaits, so two imports    *)
(* interleave between them.  The category suggestion stored with a created   *)
(* transaction is left out.                                                  *)

MaxImports == 2
MaxRows == 2

ImportIds == 1..MaxImports

CsvRow(date, amount, merchant, description) == [date |-> date, amount |-> amount, merchant |-> merchant, description |-> description]

\* Data rows of a file with date, amount, merchant and description columns.
CsvRowChoices ==
    { CsvRow("2025-01-05", "-45.50", "Amazon", "Office chairs"),
      CsvRow("2025-01-05", "(45.50)", "", "AMAZON"),
      CsvRow("2025-01-06", "45.50", "Amazon", "Refund") }

\* A row whose date does not parse.
UnparsableRow == CsvRow("soon", "10", "Uber", "Ride")

RECURSIVE RowsOfLength(_)
RowsOfLength(n) == IF n = 0 THEN {<<>>} ELSE {Append(rows, row) : rows \in RowsOfLength(n - 1), row \in CsvRowChoices}

\* The data rows of the files: parseCsv has dropped the empty rows, and
\* importBankCsv has refused a file without a data row.  A file has at most
\* one unparsable row, its last: the import stops there.
CsvFiles ==
    UNION {RowsOfLength(n) \cup {Append(rows, UnparsableRow) : rows \in RowsOfLength(n - 1)} : n \in 1..MaxRows}

\* parseDate: an ISO date parses, the rest throws
parseDate(raw) == IF raw \in {"2025-01-05", "2025-01-06"} THEN Some(raw) ELSE Undefined

\* parseAmount, in cents: "$", "," and blanks are dropped, parentheses and a
\* leading "-" make the amount negative
parseAmount(raw) ==
    CASE raw = "-45.50" -> Some(-4550)
      [] raw = "(45.50)" -> Some(-4550)
      [] raw = "45.50" -> Some(4550)
      [] raw = "10" -> Some(1000)
      [] OTHER -> Undefined

\* String.prototype.toLowerCase on the merchants of the rows
toLowerCase(text) ==
    CASE text \in {"Amazon", "AMAZON", "amazon"} -> "amazon"
      [] text \in {"Uber", "uber"} -> "uber"
      [] OTHER -> text

\* JSON.stringify of a number of dollars held in cents
AmountText(cents) == IF cents = 4550 THEN "45.5" ELSE IF cents = 1000 THEN "10" ELSE "0"

\* import-service.ts:113-131
buildFingerprint(taxYear, date, amount, merchant, direction, source) ==
    sha256("{taxYear:" \o taxYear \o ",date:" \o date \o ",amount:" \o AmountText(amount)
           \o ",merchant:" \o toLowerCase(merchant) \o ",direction:" \o direction
           \o ",source:" \o source \o "}")

RowThrows(row) == parseDate(row.date) = Undefined \/ parseAmount(row.amount) = Undefined

\* import-service.ts:217-226: the fields and the fingerprint of a row
RowFields(row, taxYear, source) ==
    LET amount == Val(parseAmount(row.amount))
        direction == IF amount < 0 THEN "EXPENSE" ELSE "INCOME"
        merchant == IF row.merchant # "" THEN row.merchant
                    ELSE IF row.description # "" THEN row.description
                    ELSE "Unknown merchant"
    IN  [date |-> Val(parseDate(row.date)), amount |-> Abs(amount), direction |-> direction,
         merchant |-> merchant,
         fingerprint |-> buildFingerprint(taxYear, Val(parseDate(row.date)), Abs(amount),
                                          merchant, direction, source)]

ImportUsers == {"user-1", "user-2"}

\* ownStored records, for each row, whether a transaction of the importing
\* user carried the row's fingerprint when the row was looked up.
NoImport ==
    [pc |-> "idle", userId |-> Null, rows |-> <<>>, index |-> 0, fingerprintCache |-> {},
     createdCount |-> 0, duplicateCount |-> 0, outcomes |-> <<>>, ownStored |-> <<>>,
     result |-> Undefined]

OwnTransactionWith(table, userId, fingerprint) ==
    \E t \in table : t.userId = userId /\ t.fingerprintId = fingerprint

\* A duplicate that is skipped without being counted.
MarkDuplicateUncounted(import, fingerprint, stored) ==
    [import EXCEPT !.index = @ + 1,
                   !.fingerprintCache = @ \cup {fingerprint},
                   !.outcomes = Append(@, [created |-> FALSE, stored |-> stored])]

\* import-service.ts:228-243: a duplicate row is counted and skipped
MarkDuplicate(import, fingerprint, stored) ==
    [import EXCEPT !.index = @ + 1,
                   !.duplicateCount = @ + 1,
                   !.fingerprintCache = @ \cup {fingerprint},
                   !.outcomes = Append(@, [created |-> FALSE, stored |-> stored])]

\* import-service.ts:278-279
MarkCreated(import, fingerprint) ==
    [import EXCEPT !.pc = "row", !.index = @ + 1,
                   !.createdCount = @ + 1,
                   !.fingerprintCache = @ \cup {fingerprint},
                   !.outcomes = Append(@, [created |-> TRUE, stored |-> FALSE])]

ImportIdle ==
    /\ fingerprintTable = {}
    /\ transactionTable = {}
    /\ imports = <<>>

ImportInit ==
    /\ fingerprintTable = {}
    /\ transactionTable = {}
    /\ imports = [i \in ImportIds |-> NoImport]

ImportOthers == <<brVars, catVars, calcVars, loaderVars, idemVars, authVars>>

TaxYearOfImports == "2025"
SourceOfImports == "bank_csv"

\* import-service.ts:195-214: the file is parsed and the batch created.
\* The imports are numbered in the order they start.
StartImport(i) ==
    /\ imports[i].pc = "idle"
    /\ \A j \in 1..(i - 1) : imports[j].pc # "idle"
    /\ \E rows \in CsvFiles, userId \in ImportUsers :
          imports' = [imports EXCEPT ![i] =
              [@ EXCEPT !.pc = "row", !.userId = userId, !.rows = rows, !.index = 1]]
    /\ UNCHANGED <<fingerprintTable, transactionTable, ImportOthers>>

\* import-service.ts:216-244: a row is parsed and its fingerprint looked up
\* in the cache and in the table
LookupRow(i) ==
    /\ imports[i].pc = "row"
    /\ imports[i].index <= Len(imports[i].rows)
    /\ LET import == imports[i]
           row == import.rows[import.index]
       IN  IF RowThrows(row)
           THEN imports' = [imports EXCEPT ![i].pc = "failed"]
           ELSE LET fingerprint == RowFields(row, TaxYearOfImports, SourceOfImports).fingerprint
                    own == OwnTransactionWith(transactionTable, import.userId, fingerprint)
                IN  IF fingerprint \in import.fingerprintCache
                    THEN imports' = [imports EXCEPT ![i] =
                             [MarkDuplicate(import, fingerprint, fingerprint \in fingerprintTable)
                                 EXCEPT !.ownStored = Append(@, own)]]
                    ELSE IF fingerprint \in fingerprintTable
                    THEN imports' = [imports EXCEPT ![i] =
                             [MarkDuplicate(import, fingerprint, TRUE)
                                 EXCEPT !.ownStored = Append(@, own)]]
                    ELSE imports' = [imports EXCEPT ![i].pc = "creating"]
    /\ UNCHANGED <<fingerprintTable, transactionTable, ImportOthers>>

\* import-service.ts:246-279: the fingerprint and the transaction are
\* created; the create of a fingerprint that is stored by now throws
CreateTransaction(i) ==
    /\ imports[i].pc = "creating"
    /\ LET import == imports[i]
           fields == RowFields(import.rows[import.index], TaxYearOfImports, SourceOfImports)
       IN  IF fields.fingerprint \in fingerprintTable
           THEN /\ imports' = [imports EXCEPT ![i].pc = "failed"]
                /\ UNCHANGED <<fingerprintTable, transactionTable>>
           ELSE /\ fingerprintTable' = fingerprintTable \cup {fields.fingerprint}
                /\ transactionTable' = transactionTable \cup
                       {[userId |-> import.userId, importBatchId |-> i, row |-> import.index,
                         fingerprintId |-> fields.fingerprint,
                         date |-> fields.date, amount |-> fields.amount,
                         merchant |-> fields.merchant, direction |-> fields.direction]}
                /\ imports' = [imports EXCEPT ![i] =
                       [MarkCreated(import, fields.fingerprint)
                           EXCEPT !.ownStored = Append(@, FALSE)]]
    /\ UNCHANGED ImportOthers

\* import-service.ts:282-310: the batch is completed and the counts returned
CompleteImport(i) ==
    /\ imports[i].pc = "row"
    /\ imports[i].index > Len(imports[i].rows)
    /\ imports' = [imports EXCEPT ![i] =
           [@ EXCEPT !.pc = "completed",
                     !.result = Some([totalRows |-> Len(imports[i].rows),
                                      createdCount |-> imports[i].createdCount,
                                      duplicateCount |-> imports[i].duplicateCount])]]
    /\ UNCHANGED <<fingerprintTable, transactionTable, ImportOthers>>

----------------------------------------------------------------------------
(* services/auth-service.ts: refreshSession.  The lookup of the session by   *)
(* the hash of the presented token and the update that stores the hash of    *)
(* the next token are separate awaits.                                       *)

MaxRefreshes == 3

RefreshIds == 1..MaxRefreshes

SessionIds == {"session-1", "session-2"}

\* randomBytes(48).toString("base64url"): the n-th token generated
newRefreshToken(n) == "token-" \o ToString(n)

NoRefresh == [pc |-> "new", refreshToken |-> Null, session |-> Null, result |-> Undefined]

AuthIdle ==
    /\ deviceSessions = <<>>
    /\ tokensIssued = 0
    /\ refreshCalls = <<>>

\* Two logins have created a session each (createSession, lines 11-27).
AuthInit ==
    /\ deviceSessions = [id \in SessionIds |->
           [refreshTokenHash |-> sha256(newRefreshToken(IF id = "session-1" THEN 1 ELSE 2)),
            revokedAt |-> Null]]
    /\ tokensIssued = 2
    /\ refreshCalls = [c \in RefreshIds |-> NoRefresh]

AuthOthers == <<brVars, catVars, calcVars, loaderVars, idemVars, importVars>>

\* prisma.deviceSession.findFirst({ refreshTokenHash, revokedAt: null, ... })
FindSession(sessions, tokenHash) ==
    IF \E id \in DOMAIN sessions :
           sessions[id].refreshTokenHash = tokenHash /\ sessions[id].revokedAt = Null
    THEN CHOOSE id \in DOMAIN sessions :
             sessions[id].refreshTokenHash = tokenHash /\ sessions[id].revokedAt = Null
    ELSE Null

\* auth-service.ts:148-164: a client presents a token that was generated
\* earlier; the session is looked up by its hash
LookupSession(c) ==
    /\ refreshCalls[c].pc = "new"
    /\ \E n \in 1..tokensIssued :
          LET session == FindSession(deviceSessions, sha256(newRefreshToken(n)))
          IN  refreshCalls' = [refreshCalls EXCEPT ![c] =
                  [pc |-> IF session = Null THEN "unauthorized" ELSE "found",
                   refreshToken |-> newRefreshToken(n),
                   session |-> session,
                   result |-> Undefined]]
    /\ UNCHANGED <<deviceSessions, tokensIssued, AuthOthers>>

\* auth-service.ts:166-194: the next token is generated, its hash stored by
\* session id, and the token returned
RotateToken(c) ==
    /\ refreshCalls[c].pc = "found"
    /\ LET nextRefreshToken == newRefreshToken(tokensIssued + 1)
       IN  /\ deviceSessions' = [deviceSessions EXCEPT
                  ![refreshCalls[c].session].refreshTokenHash = sha256(nextRefreshToken)]
           /\ refreshCalls' = [refreshCalls EXCEPT ![c].pc = "returned",
                                                   ![c].result = Some(nextRefreshToken)]
    /\ tokensIssued' = tokensIssued + 1
    /\ UNCHANGED AuthOthers

----------------------------------------------------------------------------
(* Properties of the idempotency preHandler                                  *)

\* The record the lookup of request r returned is unexpired at the time the
\* request captured (idempotency.ts:44-66).
MatchedActive(r) == IsActive(requests[r].existing, requests[r].now)

Answered(r) == requests[r].pc = "done" /\ requests[r].reply # Undefined

RepliedWith(r, code, body) == requests[r].reply = Some([code |-> code, body |-> body])

\* C14: a request whose key tuple matches an unexpired record never runs the
\* route handler: it is answered 409 IDEMPOTENCY_CONFLICT when the payload
\* hash differs, with the stored response code and body when the payload is
\* the same and the record is COMPLETED, and 202 IDEMPOTENCY_IN_FLIGHT when
\* the payload is the same and the record is still processing; a request that
\* reaches the handler matched no unexpired record and holds the id of the
\* record it created.
C14_ActiveRecordShortCircuits ==
    \A r \in RequestIds :
        /\ MatchedActive(r) =>
              /\ ~requests[r].ranHandler
              /\ requests[r].pc \notin {"handling", "sending"}
              /\ requests[r].idempotency = Undefined
              /\ Answered(r) =>
                    LET active == Val(requests[r].existing)
                    IN  IF active.payloadHash # buildRequestHash(requests[r].body)
                        THEN RepliedWith(r, 409, "{code:IDEMPOTENCY_CONFLICT}")
                        ELSE IF active.status = "COMPLETED"
                        THEN RepliedWith(r, Val(active.responseCode), active.responseJson)
                        ELSE RepliedWith(r, 202, "{code:IDEMPOTENCY_IN_FLIGHT}")
        /\ (requests[r].ranHandler \/ requests[r].pc = "handling") =>
              /\ ~MatchedActive(r)
              /\ requests[r].idempotency # Undefined
              /\ Val(requests[r].idempotency).recordId < idemNextId

\* Of two requests, one was answered with the response the other stored, and
\* the other was refused for its different payload.
C14_Witness ==
    \E r \in RequestIds :
        /\ Answered(r)
        /\ MatchedActive(r)
        /\ Val(requests[r].existing).status = "COMPLETED"
        /\ RepliedWith(r, 200, "{created:" \o requests[r].body \o "}")
        /\ handlerRuns[requests[r].key] = 1

\* Companion witnesses: the conflict and the in-flight answers happen.
ConflictAnswered ==
    \E r \in RequestIds : Answered(r) /\ MatchedActive(r) /\ RepliedWith(r, 409, "{code:IDEMPOTENCY_CONFLICT}")

InFlightAnswered ==
    \E r \in RequestIds : Answered(r) /\ MatchedActive(r) /\ RepliedWith(r, 202, "{code:IDEMPOTENCY_IN_FLIGHT}")

----------------------------------------------------------------------------
(* Properties of the bank CSV import                                         *)

RowFingerprint(i, k) == RowFields(imports[i].rows[k], TaxYearOfImports, SourceOfImports).fingerprint

CreatedBy(i, k) == {t \in transactionTable : t.importBatchId = i /\ t.row = k}

\* Row k of import i repeats an earlier row of its file, or its fingerprint
\* was stored when the row was looked up.
IsDuplicateRow(i, k) ==
    \/ \E j \in 1..(k - 1) : RowFingerprint(i, j) = RowFingerprint(i, k)
    \/ imports[i].outcomes[k].stored

\* C15: no two transactions share a fingerprint; in an import that returns,
\* a row whose fingerprint is that of an earlier row of the file or is
\* already stored creates nothing and is counted in duplicateCount, every
\* other row creates exactly one transaction and is counted in createdCount,
\* and createdCount + duplicateCount is the number of data rows.
C15_OneTransactionPerFingerprint ==
    /\ \A t1, t2 \in transactionTable : t1.fingerprintId = t2.fingerprintId => t1 = t2
    /\ \A i \in ImportIds :
          imports[i].pc = "completed" =>
              LET result == Val(imports[i].result)
                  rowNumbers == 1..Len(imports[i].rows)
              IN  /\ result.createdCount + result.duplicateCount = Len(imports[i].rows)
                  /\ result.totalRows = Len(imports[i].rows)
                  /\ result.duplicateCount = Cardinality({k \in rowNumbers : IsDuplicateRow(i, k)})
                  /\ result.createdCount = Cardinality({k \in rowNumbers : ~IsDuplicateRow(i, k)})
                  /\ \A k \in rowNumbers :
                        IF IsDuplicateRow(i, k)
                        THEN CreatedBy(i, k) = {}
                        ELSE /\ Cardinality(CreatedBy(i, k)) = 1
                             /\ \A t \in CreatedBy(i, k) : t.fingerprintId = RowFingerprint(i, k)

\* An import returned one created and one duplicate row for a file whose two
\* rows spell the same transaction differently, and another import of the
\* same transaction returned a duplicate only.
C15_Witness ==
    \E i, j \in ImportIds :
        /\ i # j
        /\ imports[i].pc = "completed" /\ imports[j].pc = "completed"
        /\ Len(imports[i].rows) = 2
        /\ imports[i].rows[1] # imports[i].rows[2]
        /\ Val(imports[i].result).createdCount = 1
        /\ Val(imports[i].result).duplicateCount = 1
        /\ Val(imports[j].result).createdCount = 0
        /\ Val(imports[j].result).duplicateCount = Len(imports[j].rows)

----------------------------------------------------------------------------
(* Specifications                                                          *)

InitBracket == BracketInit /\ CatIdle /\ CalcIdle /\ LoaderIdle /\ IdemIdle /\ ImportIdle /\ AuthIdle
NextBracket == ApplyBracketLo \/ ApplyBracketHi
SpecBracket == InitBracket /\ [][NextBracket]_vars

InitCat == CatInit /\ BracketIdle /\ CalcIdle /\ LoaderIdle /\ IdemIdle /\ ImportIdle /\ AuthIdle
NextCat == Categorize
SpecCat == InitCat /\ [][NextCat]_vars

Init == CalcInit /\ BracketIdle /\ CatIdle /\ LoaderIdle /\ IdemIdle /\ ImportIdle /\ AuthIdle
Next == Compute
Spec == Init /\ [][Next]_vars

InitLoader == LoaderInit /\ BracketIdle /\ CatIdle /\ CalcIdle /\ IdemIdle /\ ImportIdle /\ AuthIdle
NextLoader ==
    \/ LoadFederal
    \/ LoadState
    \/ EditPayload
    \/ ReorderPayload
    \/ ReformatFile
    \/ ResignFile
    \/ ForgeSignature
    \/ CopySignature
SpecLoader == InitLoader /\ [][NextLoader]_vars

InitIdem == IdemInit /\ BracketIdle /\ CatIdle /\ CalcIdle /\ LoaderIdle /\ ImportIdle /\ AuthIdle
NextIdem ==
    \/ \E r \in RequestIds : Receive(r)
    \/ \E r \in RequestIds : DeleteExpired(r)
    \/ \E r \in RequestIds : Answer(r)
    \/ \E r \in RequestIds : RunHandler(r)
    \/ \E r \in RequestIds : Send(r)
    \/ WeekPasses
SpecIdem == InitIdem /\ [][NextIdem]_vars

InitImport == ImportInit /\ BracketIdle /\ CatIdle /\ CalcIdle /\ LoaderIdle /\ IdemIdle /\ AuthIdle
NextImport ==
    \/ \E i \in ImportIds : StartImport(i)
    \/ \E i \in ImportIds : LookupRow(i)
    \/ \E i \in ImportIds : CreateTransaction(i)
    \/ \E i \in ImportIds : CompleteImport(i)
SpecImport == InitImport /\ [][NextImport]_vars

InitAuth == AuthInit /\ BracketIdle /\ CatIdle /\ CalcIdle /\ LoaderIdle /\ IdemIdle /\ ImportIdle
NextAuth ==
    \/ \E c \in RefreshIds : LookupSession(c)
    \/ \E c \in RefreshIds : RotateToken(c)
SpecAuth == InitAuth /\ [][NextAuth]_vars

----------------------------------------------------------------------------
(* Properties of computeBracketTax                                          *)

\* Highest marginal rate of a bracket that overlaps the interval (lo, hi].
MaxRateTouched(table, lo, hi) ==
    LET touched == {i \in 1..Len(table) :
                       /\ table[i].min < hi
                       /\ (table[i].max = NullNum \/ Val(table[i].max) > lo)}
    IN  IF touched = {} THEN 0
        ELSE CHOOSE r \in {table[i].rate : i \in touched} :
                 \A i \in touched : table[i].rate <= r

BothBracketTaxesComputed == brTaxLo # NullNum /\ brTaxHi # NullNum

\* C2: on a contiguous ascending table with non-negative rates the bracket tax
\* is non-decreasing in income, and raising the income by d raises the tax by
\* at most d times the highest marginal rate touched, up to the one final
\* rounding (strictly less than one cent above it).
C2_BracketMonotoneNoJump ==
    BothBracketTaxesComputed =>
        /\ Val(brTaxLo) <= Val(brTaxHi)
        /\ 100 * (Val(brTaxHi) - Val(brTaxLo))
               < (brHi - brLo) * MaxRateTouched(brTable, brLo, brHi) + 100

\* The two incomes lie on either side of a bracket boundary with different
\* rates on the two sides, and the tax rose.
C2_Witness ==
    /\ BothBracketTaxesComputed
    /\ \E i \in 1..(Len(brTable) - 1) :
           /\ brLo < brTable[i + 1].min
           /\ brTable[i + 1].min < brHi
           /\ brTable[i].rate # brTable[i + 1].rate
           /\ brTable[i].rate > 0
    /\ Val(brTaxHi) > Val(brTaxLo)

----------------------------------------------------------------------------
(* Properties of categorizeTransaction                                      *)

\* The specified meaning of "pattern matches text": an absent, empty or
\* invalid pattern matches nothing.
PatternMatchesText(text, pattern) ==
    /\ pattern # Null
    /\ pattern # ""
    /\ RegExpValid(pattern)
    /\ RegExpTest(pattern, text)

MatchedBy(text, x) ==
    PatternMatchesText(text, x.vendorPattern) \/ PatternMatchesText(text, x.keywordPattern)

MatchingOverrides == {i \in 1..Len(catOverrides) : MatchedBy(MatchingText(catTx), catOverrides[i])}

MatchingRules ==
    {i \in 1..Len(catRules) :
        MatchedBy(MatchingText(catTx), catRules[i]) /\ AmountMatched(catTx, catRules[i])}

FirstMatchingOverride ==
    catOverrides[CHOOSE i \in MatchingOverrides : \A j \in MatchingOverrides : i <= j]

\* C4: a transaction matched by a user override and by a generic rule gets the
\* first matching override's category with confidence 99 and source USER.
C4_OverrideWins ==
    (catResult # NotRun /\ MatchingOverrides # {} /\ MatchingRules # {}) =>
        /\ catResult.kind = "suggestion"
        /\ catResult.categoryCode = FirstMatchingOverride.categoryOverride
        /\ catResult.confidence = 99
        /\ catResult.source = "USER"

InvalidAsAbsent(pattern) ==
    IF pattern # Null /\ ~RegExpValid(pattern) THEN Null ELSE pattern

WithoutInvalidPatterns(xs) ==
    [i \in 1..Len(xs) |->
        [xs[i] EXCEPT !.vendorPattern = InvalidAsAbsent(@),
                      !.keywordPattern = InvalidAsAbsent(@)]]

\* C8: categorizeTransaction never fails on an invalid pattern; the pattern is
\* treated as non-matching and the normal result is returned.
C8_InvalidPatternSkipped ==
    catResult # NotRun =>
        /\ catResult # Thrown
        /\ catResult = categorizeTransaction(catTx, WithoutInvalidPatterns(catRules),
                                             WithoutInvalidPatterns(catOverrides))

\* Companion property: whenever categorizeTransaction returns, overrides win.
OverrideWinsWhenReturning ==
    (catResult # NotRun /\ catResult # Thrown /\ MatchingOverrides # {}) =>
        /\ catResult.kind = "suggestion"
        /\ catResult.categoryCode = FirstMatchingOverride.categoryOverride
        /\ catResult.confidence = 99
        /\ catResult.source = "USER"

----------------------------------------------------------------------------
(* Properties of computeTaxEstimate                                         *)

Produced == out.kind = "output"

HasFlag(flags, code, severity) ==
    \E i \in 1..Len(flags) : flags[i].code = code /\ flags[i].severity = severity

HasAssumption(assumptions, code) ==
    \E i \in 1..Len(assumptions) : assumptions[i].code = code

\* C1: with filingStatus = null the federal status is BLOCKED_INPUT, the federal
\* tax is null and the estimate status is BLOCKED, whatever the other inputs.
C1_NullFilingStatusBlocks ==
    (Produced /\ snapshot.profile.filingStatus = Null) =>
        /\ out.federal.status = "BLOCKED_INPUT"
        /\ out.federal.tax = NullNum
        /\ out.estimateStatus = "BLOCKED"

\* A null filing status on an out-of-scope profile with income and a validated
\* state ruleset: nothing but the filing status blocks the estimate.
C1_Witness ==
    /\ Produced
    /\ snapshot.profile.filingStatus = Null
    /\ snapshot.profile.residentState # "ND"
    /\ Len(snapshot.incomes) > 0
    /\ snapshot.stateRuleset = ValidatedStateRuleset

\* C3: two calls with identical inputs and rulesets yield identical output in
\* every field, the explanation graph and its node ids included.
C3_IdenticalOutputs ==
    (Produced /\ prevOut.kind = "output") => out = prevOut

WithoutNodeIds(output) ==
    [output EXCEPT
        !.explanation.nodeId = 0,
        !.explanation.children =
            [i \in 1..Len(output.explanation.children) |->
                [output.explanation.children[i] EXCEPT !.nodeId = 0]]]

\* Companion property: the node ids are the only fields in which two calls differ.
IdenticalApartFromNodeIds ==
    (Produced /\ prevOut.kind = "output") => WithoutNodeIds(out) = WithoutNodeIds(prevOut)

\* C6: a profile with an advanced attribute is OUT_OF_SCOPE whatever its
\* residency, and the output carries OUT_OF_SCOPE_CASE_DETECTED at high severity.
C6_AdvancedAttributesOutOfScope ==
    (Produced /\ HasAdvancedAttributes(snapshot.profile)) =>
        /\ evaluateScope(snapshot.profile).scope.status = "OUT_OF_SCOPE"
        /\ out.scope.status = "OUT_OF_SCOPE"
        /\ HasFlag(out.riskFlags, "OUT_OF_SCOPE_CASE_DETECTED", "high")

\* An advanced attribute on a part-year North Dakota resident.
C6_Witness ==
    /\ Produced
    /\ HasAdvancedAttributes(snapshot.profile)
    /\ snapshot.profile.residentState = "ND"
    /\ ~snapshot.profile.isFullYearResident
    /\ out.scope.status = "OUT_OF_SCOPE"

\* C7 as stated: with filingStatus = null, whatever the incomes and
\* transactions, completeness <= 50, confidence <= 60 and state.tax is null.
C7_BlockedScoresAsStated ==
    (Produced /\ snapshot.profile.filingStatus = Null) =>
        /\ out.completeness.score <= 50
        /\ out.confidence.score <= 60
        /\ out.state.tax = NullNum

\* C7 amended: with filingStatus = null, state.tax is null and both scores are
\* at most 75; completeness <= 50 and confidence <= 60 hold when in addition
\* the input has no income source.
C7_BlockedScores ==
    (Produced /\ snapshot.profile.filingStatus = Null) =>
        /\ out.state.tax = NullNum
        /\ out.completeness.score <= 75
        /\ out.confidence.score <= 75
        /\ (Len(snapshot.incomes) = 0 =>
               /\ out.completeness.score <= 50
               /\ out.confidence.score <= 60)

\* No filing status and no income, with every month covered by nothing but
\* one reviewed, categorized transaction: the score sits on the bound.
C7_Witness ==
    /\ Produced
    /\ snapshot.profile.filingStatus = Null
    /\ Len(snapshot.incomes) = 0
    /\ Len(snapshot.transactions) > 0
    /\ out.completeness.score <= 50
    /\ out.state.tax = NullNum

\* C9: estimateStatus is BLOCKED if federal is not COMPUTED or state is
\* BLOCKED_RULESET, else FULL if the scope is IN_SCOPE, else PARTIAL; FULL
\* implies scope IN_SCOPE, federal COMPUTED and state COMPUTED; the watermark
\* is null exactly when the status is FULL.
C9_EstimateStatus ==
    Produced =>
        /\ out.estimateStatus =
               (IF out.federal.status # "COMPUTED" \/ out.state.status = "BLOCKED_RULESET"
                THEN "BLOCKED"
                ELSE IF out.scope.status = "IN_SCOPE" THEN "FULL" ELSE "PARTIAL")
        /\ (out.estimateStatus = "FULL" =>
               /\ out.scope.status = "IN_SCOPE"
               /\ out.federal.status = "COMPUTED"
               /\ out.state.status = "COMPUTED")
        /\ (out.estimateWatermark = Null <=> out.estimateStatus = "FULL")

\* A partial estimate: federal and state computed for a part-year resident.
C9_Witness ==
    /\ Produced
    /\ out.estimateStatus = "PARTIAL"
    /\ out.federal.status = "COMPUTED"
    /\ out.state.status = "COMPUTED"
    /\ out.estimateWatermark # Null

IsSimpleW2Case ==
    /\ evaluateScope(snapshot.profile).scope.status = "IN_SCOPE"
    /\ snapshot.profile.filingStatus # Null
    /\ snapshot.profile.itemizedDeductionAmount = NullNum
    /\ Len(snapshot.incomes) > 0
    /\ \A i \in 1..Len(snapshot.incomes) : snapshot.incomes[i].type = "W2"
    /\ snapshot.transactions = <<>>
    /\ snapshot.deductions = <<>>
    /\ snapshot.stateRuleset.computable
    /\ snapshot.stateRuleset.brackets # Undefined

SimpleW2TaxableIncome ==
    Max(0, SumSeq(IncomeAmounts(snapshot.incomes))
               - snapshot.federalRuleset.standardDeduction[snapshot.profile.filingStatus])

\* C10: in scope, known filing status, W-2 income only, no transactions, no
\* deduction items, no itemized amount, computable state ruleset: taxable
\* income is max(0, G - standard deduction), federal and state tax are the
\* bracket taxes of that amount, the status is FULL and the assumption
\* STANDARD_DEDUCTION_APPLIED is recorded.
C10_SimpleW2 ==
    (Produced /\ IsSimpleW2Case) =>
        /\ out.breakdown.taxableIncomeFederal = SimpleW2TaxableIncome
        /\ out.breakdown.federalTax =
               computeBracketTax(SimpleW2TaxableIncome,
                                 snapshot.federalRuleset.brackets[snapshot.profile.filingStatus])
        /\ out.breakdown.stateTax =
               Num(computeBracketTax(SimpleW2TaxableIncome,
                                     Val(snapshot.stateRuleset.brackets)[snapshot.profile.filingStatus]))
        /\ out.estimateStatus = "FULL"
        /\ HasAssumption(out.assumptions, "STANDARD_DEDUCTION_APPLIED")

\* The simple W-2 case with a positive taxable income and a positive state tax.
C10_Witness ==
    /\ Produced
    /\ IsSimpleW2Case
    /\ out.breakdown.taxableIncomeFederal > 0
    /\ out.breakdown.stateTax # NullNum
    /\ Val(out.breakdown.stateTax) > 0

----------------------------------------------------------------------------
(* Properties of the ruleset loader                                         *)

LoadAttempted == loaded.kind # "none" /\ readDoc # <<>>

\* the document read is one that the holder of the signing secret signed
ReadDocIsIssued == readDoc \in issued

\* C5: a loader returns a ruleset only if the stored rulesetSignature equals
\* the keyed signature recomputed over the document minus the signature
\* member; a document as signed always loads; a payload changed without a
\* matching signature fails with RULESET_SIGNATURE_INVALID and a message
\* naming the ruleset id.
C5_SignatureVerified ==
    LoadAttempted =>
        /\ (loaded.kind = "ruleset" =>
               /\ loaded.ruleset = readDoc
               /\ Field(readDoc, SignatureKey)
                      = createHmac(RULESET_SIGNING_SECRET,
                                   JSONStringify(UnsignedPayload(readDoc))))
        /\ (ReadDocIsIssued => loaded = LoadedRuleset(readDoc))
        /\ (~ReadDocIsIssued =>
               /\ loaded.kind = "error"
               /\ loaded.code = "RULESET_SIGNATURE_INVALID"
               /\ loaded.message
                      = "Ruleset signature mismatch for " \o Field(readDoc, "id"))

\* A load of a file whose payload was changed and whose signature is that of
\* another signed ruleset is refused.
C5_Witness ==
    /\ LoadAttempted
    /\ ~ReadDocIsIssued
    /\ \E document \in issued :
          /\ Field(document, SignatureKey) = Field(readDoc, SignatureKey)
          /\ UnsignedPayload(document) # UnsignedPayload(readDoc)
    /\ loaded.kind = "error"
    /\ loaded.code = "RULESET_SIGNATURE_INVALID"

\* Companion property: a file rewritten and signed again by the secret's holder
\* loads, and so does a file whose whitespace alone changed.
ResignedFileLoads ==
    (LoadAttempted /\ \E filePath \in RulesetPaths :
                         /\ files[filePath].members = readDoc
                         /\ Sign(UnsignedPayload(readDoc), RULESET_SIGNING_SECRET) = readDoc)
        => loaded.kind = "ruleset"

----------------------------------------------------------------------------
(* Properties of the monetary breakdown and of the scores                   *)

\* |amount| of the i-th transaction if it is an expense whose category after
\* the categorization step is on the whitelist, else 0
WhitelistedExpense(i) ==
    IF /\ snapshot.transactions[i].direction = "EXPENSE"
       /\ out.categorizedTransactions[i].categoryCode
              \in {"OFFICE_SUPPLIES", "MEALS", "TRAVEL", "SOFTWARE", "BANK_FEES"}
    THEN Abs(snapshot.transactions[i].amount)
    ELSE 0

ConfirmedDeduction(i) ==
    IF snapshot.deductions[i].isConfirmed THEN snapshot.deductions[i].amount ELSE 0

\* C11: businessExpenses is the sum of |amount| over the expense transactions
\* whose category after categorization is on the whitelist, plus the amounts
\* of the confirmed deduction items; nothing else contributes.
C11_BusinessExpenses ==
    Produced =>
        out.breakdown.businessExpenses
            = SumSeq([i \in 1..Len(snapshot.transactions) |-> WhitelistedExpense(i)])
              + SumSeq([i \in 1..Len(snapshot.deductions) |-> ConfirmedDeduction(i)])

\* One whitelisted expense next to an expense that is not, with a confirmed
\* and an unconfirmed deduction item.
C11_Witness ==
    /\ Produced
    /\ \E i, j \in 1..Len(snapshot.transactions) :
          /\ WhitelistedExpense(i) > 0
          /\ snapshot.transactions[j].direction = "EXPENSE"
          /\ WhitelistedExpense(j) = 0
    /\ \E i, j \in 1..Len(snapshot.deductions) :
          snapshot.deductions[i].isConfirmed /\ ~snapshot.deductions[j].isConfirmed
    /\ out.breakdown.businessExpenses > 0

DriverImpacts(drivers) == [i \in 1..Len(drivers) |-> drivers[i].impact]

\* C12: the confidence score lies in [0,100], never exceeds the completeness
\* score, every recorded impact is a penalty (<= 0), and the score is
\* clamp(completeness.score + sum of the drivers' impacts, 0, 100).
C12_ConfidenceBounded ==
    Produced =>
        /\ out.confidence.score \in 0..100
        /\ out.confidence.score <= out.completeness.score
        /\ \A i \in 1..Len(out.confidence.drivers) : out.confidence.drivers[i].impact <= 0
        /\ out.confidence.score
               = clamp(out.completeness.score
                           + SumSeq(DriverImpacts(out.confidence.drivers)), 0, 100)

\* Several penalties at once, and a score strictly between the bounds.
C12_Witness ==
    /\ Produced
    /\ Len(out.confidence.drivers) >= 3
    /\ out.confidence.score > 0
    /\ out.confidence.score < out.completeness.score

----------------------------------------------------------------------------
(* Properties of a load of an unlisted version                              *)

UnlistedRequested ==
    /\ loaded.kind # "none"
    /\ FindVersion(loadRulesetMeta, request.version) = Undefined

\* C13: loading a version identifier that the version index does not contain
\* returns no ruleset and fails with an error of a kind of its own
\* (RulesetNotFound), distinguishable as RULESET_SIGNATURE_INVALID is.
C13_NotFoundIsDistinguishable ==
    UnlistedRequested =>
        /\ loaded.kind = "error"
        /\ loaded.code \notin {Null, "RULESET_SIGNATURE_INVALID"}

\* Companion property: a load of an unlisted version returns no ruleset; the
\* error it raises carries a message and no code.
UnlistedVersionReturnsNoRuleset ==
    UnlistedRequested =>
        /\ loaded.kind = "error"
        /\ loaded.code = Null
        /\ loaded.message \in {"Federal ruleset " \o request.version \o " not found",
                               "State ruleset " \o request.version \o " not found"}

----------------------------------------------------------------------------
(* Properties of the totals and of the categorized transactions              *)

\* C16: breakdown.totalTax and breakdown.totalBalanceDue are non-null exactly
\* when state.status is COMPUTED; when non-null they are federalTax + stateTax
\* and federalBalanceDue + stateBalanceDue; when the state is not computed the
\* monthly and quarterly recommendations and the payment plan are sized from
\* the federal balance due alone.
C16_TotalsOnlyWithState ==
    Produced =>
        LET b == out.breakdown
            computed == out.state.status = "COMPUTED"
        IN  /\ (b.totalTax # NullNum) <=> computed
            /\ (b.totalBalanceDue # NullNum) <=> computed
            /\ computed =>
                  /\ b.stateTax # NullNum /\ b.stateBalanceDue # NullNum
                  /\ Val(b.totalTax) = b.federalTax + Val(b.stateTax)
                  /\ Val(b.totalBalanceDue) = b.federalBalanceDue + Val(b.stateBalanceDue)
            /\ ~computed =>
                  /\ b.monthlySetAsideRecommendation
                         = Max(0, MathRound(b.federalBalanceDue, 12))
                  /\ b.quarterlyEstimatedPaymentRecommendation
                         = Max(0, MathRound(b.federalBalanceDue, 4))
                  /\ out.estimatedPaymentPlan
                         = buildEstimatedPaymentPlan(snapshot.profile.taxYear,
                                                     Max(0, b.federalBalanceDue))

\* A state that is not computed next to a federal balance that is due.
C16_Witness ==
    /\ Produced
    /\ out.state.status # "COMPUTED"
    /\ out.federal.status = "COMPUTED"
    /\ out.breakdown.federalBalanceDue > 0
    /\ Len(out.estimatedPaymentPlan) = 4
    /\ out.breakdown.totalTax = NullNum

\* Companion witness: a computed state whose balance changes the total.
TotalsWithStateReached ==
    /\ Produced
    /\ out.state.status = "COMPUTED"
    /\ Val(out.breakdown.stateBalanceDue) # 0
    /\ Val(out.breakdown.totalTax) > out.breakdown.federalTax

CategoryFields(transaction) ==
    <<transaction.categoryCode, transaction.categoryConfidence, transaction.categoryReason, transaction.categorySource>>

\* C17: a transaction that has a category on input is the same record in
\* categorizedTransactions, whatever the rules and overrides match; the
\* category fields of a transaction change only when the input had none.
C17_CategorizedUnchanged ==
    Produced =>
        /\ Len(out.categorizedTransactions) = Len(snapshot.transactions)
        /\ \A i \in 1..Len(snapshot.transactions) :
              /\ snapshot.transactions[i].categoryCode # Null =>
                    out.categorizedTransactions[i] = snapshot.transactions[i]
              /\ CategoryFields(out.categorizedTransactions[i])
                     # CategoryFields(snapshot.transactions[i]) =>
                    snapshot.transactions[i].categoryCode = Null

\* A categorized transaction that the rules or overrides would have put in
\* another category, next to an uncategorized one that received a category.
C17_Witness ==
    /\ Produced
    /\ \E i, j \in 1..Len(snapshot.transactions) :
          /\ snapshot.transactions[i].categoryCode # Null
          /\ categorizeTransaction(snapshot.transactions[i], snapshot.mappingRules,
                                   snapshot.userOverrides).kind = "suggestion"
          /\ categorizeTransaction(snapshot.transactions[i], snapshot.mappingRules,
                                   snapshot.userOverrides).categoryCode
                 # snapshot.transactions[i].categoryCode
          /\ snapshot.transactions[j].categoryCode = Null
          /\ out.categorizedTransactions[j].categoryCode # Null

----------------------------------------------------------------------------
(* Properties of the order of the confidence score and the risk flags        *)

HighFlags(flags) == Cardinality({i \in 1..Len(flags) : flags[i].severity = "high"})

\* C18: the confidence of an output is evaluateConfidence applied to the
\* riskFlags list of the same output, so every high-severity flag of the
\* output, UNDERWITHHOLDING_RISK included, is counted in the HIGH_RISK_FLAGS
\* penalty.
C18_ConfidenceCountsEveryFlag ==
    Produced =>
        out.confidence
            = evaluateConfidence(out.completeness, snapshot.incomes,
                                 out.categorizedTransactions, out.riskFlags,
                                 snapshot.stateRuleset.computable)

\* Companion property: the confidence counts the flags raised before the
\* underwithholding check, and only those.
ConfidenceCountsEarlierFlags ==
    Produced =>
        LET IsEarlier(flag) == flag.code # "UNDERWITHHOLDING_RISK"
        IN  out.confidence
                = evaluateConfidence(out.completeness, snapshot.incomes,
                                     out.categorizedTransactions,
                                     SelectSeq(out.riskFlags, IsEarlier),
                                     snapshot.stateRuleset.computable)

----------------------------------------------------------------------------
(* Properties of the state result                                            *)

StateNotComputed == Produced /\ out.state.status # "COMPUTED"

\* C19: when the state tax is not computed, state.status is BLOCKED_RULESET
\* exactly when the state ruleset is not computable, and OUT_OF_SCOPE exactly
\* when the ruleset is computable and the scope is out of scope; a ruleset
\* that is not computable always gives BLOCKED_RULESET and an estimateStatus
\* of BLOCKED.
C19_StateStatusNamesCause ==
    StateNotComputed =>
        /\ out.state.status = "BLOCKED_RULESET" <=> ~snapshot.stateRuleset.computable
        /\ out.state.status = "OUT_OF_SCOPE" <=>
               (snapshot.stateRuleset.computable /\ out.scope.status = "OUT_OF_SCOPE")
        /\ ~snapshot.stateRuleset.computable => out.estimateStatus = "BLOCKED"

\* Companion property: the status follows the scope alone and the reason
\* code follows the ruleset alone.
StateStatusFollowsScope ==
    StateNotComputed =>
        /\ out.state.status = "OUT_OF_SCOPE" <=> out.scope.status = "OUT_OF_SCOPE"
        /\ out.state.status = "BLOCKED_RULESET" <=> out.scope.status # "OUT_OF_SCOPE"
        /\ out.state.reasonCode = "STATE_RULESET_STALE" <=> ~snapshot.stateRuleset.computable

\* Companion witnesses: a stale ruleset reported as OUT_OF_SCOPE in an
\* estimate that is not blocked, and a computable ruleset reported as
\* BLOCKED_RULESET.
StaleRulesetReportedOutOfScope ==
    /\ StateNotComputed
    /\ ~snapshot.stateRuleset.computable
    /\ out.state.status = "OUT_OF_SCOPE"
    /\ out.state.reasonCode = "STATE_RULESET_STALE"
    /\ out.estimateStatus = "PARTIAL"

ComputableRulesetReportedBlocked ==
    /\ StateNotComputed
    /\ snapshot.stateRuleset = ValidatedStateRuleset
    /\ out.state.status = "BLOCKED_RULESET"
    /\ out.state.reasonCode = "OUT_OF_SCOPE_CASE_DETECTED"

StateTables == snapshot.stateRuleset.brackets

StateResultNull ==
    /\ out.state.tax = NullNum
    /\ out.breakdown.stateTax = NullNum
    /\ out.breakdown.taxableIncomeState = NullNum

StateResultComputed ==
    /\ out.state.tax
           = Num(computeBracketTax(out.breakdown.taxableIncomeFederal,
                                   Val(StateTables)[snapshot.profile.filingStatus]))
    /\ out.breakdown.stateTax = out.state.tax
    /\ out.breakdown.taxableIncomeState = Num(out.breakdown.taxableIncomeFederal)

\* C20 as stated: state.status is COMPUTED exactly when the state ruleset is
\* computable and the filing status is known.
C20_ComputedAsStated ==
    Produced =>
        (out.state.status = "COMPUTED"
            <=> (snapshot.stateRuleset.computable /\ snapshot.profile.filingStatus # Null))

\* C20: state.status is COMPUTED exactly when the state ruleset is computable,
\* carries bracket tables, and the filing status is known; then state.tax is
\* the bracket tax of breakdown.taxableIncomeFederal on the state table of the
\* filing status; otherwise state.tax, breakdown.stateTax and
\* breakdown.taxableIncomeState are null.
C20_StateComputed ==
    Produced =>
        /\ out.state.status = "COMPUTED"
               <=> /\ snapshot.stateRuleset.computable
                   /\ StateTables # Undefined
                   /\ snapshot.profile.filingStatus # Null
        /\ IF out.state.status = "COMPUTED" THEN StateResultComputed ELSE StateResultNull

\* A joint filer whose state tax is computed and positive, and differs from
\* the tax of the SINGLE table.
C20_Witness ==
    /\ Produced
    /\ out.state.status = "COMPUTED"
    /\ snapshot.profile.filingStatus = "MARRIED_FILING_JOINTLY"
    /\ Val(out.state.tax) > 0
    /\ Val(out.state.tax)
           # computeBracketTax(out.breakdown.taxableIncomeFederal, Val(StateTables)["SINGLE"])

\* Companion witness: a computable ruleset without tables, filing status known.
TablelessRulesetNotComputed ==
    /\ StateNotComputed
    /\ snapshot.stateRuleset.computable
    /\ snapshot.profile.filingStatus # Null

----------------------------------------------------------------------------
(* Properties of the scope decision                                          *)

AnyAdvancedAttribute ==
    \/ snapshot.profile.hasForeignIncome
    \/ snapshot.profile.hasK1
    \/ snapshot.profile.hasAdvancedInvestments
    \/ snapshot.profile.hasAdvancedDepreciation

Listed(codes, code) == \E i \in 1..Len(codes) : codes[i] = code

\* C21: the scope is OUT_OF_SCOPE iff the resident state is not ND or an
\* advanced attribute is set; PARTIAL iff neither holds and the profile is
\* not a full-year resident, and then the high-impact, user-action-needed
\* assumption FULL_YEAR_ND_ASSUMED_FALSE is recorded; IN_SCOPE otherwise,
\* and then reasonCodes is [SUPPORTED_CASE]; SUPPORTED_CASE never stands
\* next to another reason code.
C21_ScopeDecision ==
    Produced =>
        LET outOfScope == snapshot.profile.residentState # "ND" \/ AnyAdvancedAttribute
            partial == ~outOfScope /\ ~snapshot.profile.isFullYearResident
        IN  /\ out.scope.status = "OUT_OF_SCOPE" <=> outOfScope
            /\ out.scope.status = "PARTIAL" <=> partial
            /\ out.scope.status = "IN_SCOPE" <=> (~outOfScope /\ ~partial)
            /\ partial =>
                  \E i \in 1..Len(out.assumptions) :
                      /\ out.assumptions[i].code = "FULL_YEAR_ND_ASSUMED_FALSE"
                      /\ out.assumptions[i].impactLevel = "high"
                      /\ out.assumptions[i].userActionNeeded
            /\ out.scope.status = "IN_SCOPE" => out.scope.reasonCodes = <<"SUPPORTED_CASE">>
            /\ Listed(out.scope.reasonCodes, "SUPPORTED_CASE") => Len(out.scope.reasonCodes) = 1

\* A part-year ND resident without advanced attributes.
C21_Witness ==
    /\ Produced
    /\ out.scope.status = "PARTIAL"
    /\ out.scope.reasonCodes = <<"PART_YEAR_RESIDENCY">>
    /\ HasAssumption(out.assumptions, "FULL_YEAR_ND_ASSUMED_FALSE")

----------------------------------------------------------------------------
(* Properties of the completeness actions                                    *)

NoIssuesAction == "No blocking completeness issues detected."

\* C22: the informational action is emitted only when no issue was found:
\* no missing item, no penalty, a score of 100.
C22_InformationalOnlyWhenClean ==
    Produced =>
        (Listed(out.completeness.actions, NoIssuesAction) =>
            /\ out.completeness.missingItems = <<>>
            /\ out.completeness.score = 100)

\* Companion property: the informational action is emitted exactly when
\* fewer than four months are gaps, whatever items are missing.
InformationalUnlessTemporalGaps ==
    Produced =>
        (Listed(out.completeness.actions, NoIssuesAction)
            <=> Len(out.completeness.gaps) < 4)

\* Companion witness: the informational action next to a missing filing
\* status and a lowered score.
InformationalWithMissingItem ==
    /\ Produced
    /\ Listed(out.completeness.actions, NoIssuesAction)
    /\ \E i \in 1..Len(out.completeness.missingItems) :
          out.completeness.missingItems[i].code = "MISSING_FILING_STATUS"
    /\ out.completeness.score = 75

----------------------------------------------------------------------------
(* Properties of the selected deduction                                      *)

StandardDeductionOfFiler ==
    snapshot.federalRuleset.standardDeduction[snapshot.profile.filingStatus]

ItemizedGiven == snapshot.profile.itemizedDeductionAmount # NullNum

StandardSelected ==
    \/ snapshot.profile.standardDeductionForced
    \/ ~ItemizedGiven
    \/ Val(snapshot.profile.itemizedDeductionAmount) <= StandardDeductionOfFiler

\* C23: with a known filing status the deduction used is the standard
\* deduction when it is forced, when no itemized amount is given, or when
\* the itemized amount does not exceed it, and the itemized amount
\* otherwise; STANDARD_DEDUCTION_APPLIED is recorded exactly when the
\* standard deduction is selected; unless forced, the deduction used is the
\* larger of the standard deduction and the itemized amount.
C23_DeductionSelection ==
    (Produced /\ snapshot.profile.filingStatus # Null) =>
        /\ out.breakdown.deductionUsed
               = (IF StandardSelected THEN StandardDeductionOfFiler
                  ELSE Val(snapshot.profile.itemizedDeductionAmount))
        /\ HasAssumption(out.assumptions, "STANDARD_DEDUCTION_APPLIED") <=> StandardSelected
        /\ ~snapshot.profile.standardDeductionForced =>
              out.breakdown.deductionUsed
                  = Max(StandardDeductionOfFiler,
                        IF ItemizedGiven THEN Val(snapshot.profile.itemizedDeductionAmount)
                        ELSE 0)

\* An itemized amount equal to the standard deduction: the standard
\* deduction is selected and the assumption recorded.
C23_Witness ==
    /\ Produced
    /\ snapshot.profile.filingStatus # Null
    /\ ItemizedGiven
    /\ Val(snapshot.profile.itemizedDeductionAmount) = StandardDeductionOfFiler
    /\ HasAssumption(out.assumptions, "STANDARD_DEDUCTION_APPLIED")

\* Companion witnesses: an itemized deduction in use, and a forced standard
\* deduction below the itemized amount.
ItemizedDeductionUsed ==
    /\ Produced
    /\ snapshot.profile.filingStatus # Null
    /\ out.breakdown.deductionUsed > StandardDeductionOfFiler
    /\ ~HasAssumption(out.assumptions, "STANDARD_DEDUCTION_APPLIED")

ForcedStandardBelowItemized ==
    /\ Produced
    /\ snapshot.profile.filingStatus # Null
    /\ snapshot.profile.standardDeductionForced
    /\ out.breakdown.deductionUsed < Val(snapshot.profile.itemizedDeductionAmount)

----------------------------------------------------------------------------
(* Properties of the self-employment tax                                     *)

SelfEmploymentComputed == Produced /\ out.breakdown.selfEmploymentTaxDetails # Undefined

SelfEmploymentDetails == Val(out.breakdown.selfEmploymentTaxDetails)

HasSelfEmploymentIncome ==
    \E i \in 1..Len(snapshot.incomes) :
        snapshot.incomes[i].type \in {"FORM_1099_NEC", "BUSINESS_GROSS"}

W2Wages == SumSeq(IncomeAmounts(SelectSeq(snapshot.incomes, IsW2)))

\* The portions add up, half of Social Security plus Medicare is deducted,
\* the Social Security portion is capped by the remaining wage base, and
\* without self-employment income or filing status both amounts are 0.
SelfEmploymentPortions ==
    /\ SelfEmploymentComputed =>
          /\ out.breakdown.selfEmploymentTax
                 = SelfEmploymentDetails.socialSecurityPortion
                   + SelfEmploymentDetails.medicarePortion
                   + SelfEmploymentDetails.additionalMedicarePortion
          /\ out.breakdown.selfEmploymentTaxDeduction
                 = MathRound(SelfEmploymentDetails.socialSecurityPortion
                                 + SelfEmploymentDetails.medicarePortion, 2)
          /\ SelfEmploymentDetails.socialSecurityPortion
                 <= MathRound(Max(0, snapshot.federalRuleset.selfEmploymentTax.socialSecurityWageBase
                                         - W2Wages)
                                  * snapshot.federalRuleset.selfEmploymentTax.socialSecurityRate,
                              100)
    /\ (Produced /\ (~HasSelfEmploymentIncome \/ snapshot.profile.filingStatus = Null)) =>
          /\ out.breakdown.selfEmploymentTax = 0
          /\ out.breakdown.selfEmploymentTaxDeduction = 0

\* C24 as stated: in addition the deduction never exceeds half of the total.
C24_DeductionAtMostHalf ==
    /\ SelfEmploymentPortions
    /\ SelfEmploymentComputed =>
          2 * out.breakdown.selfEmploymentTaxDeduction <= out.breakdown.selfEmploymentTax

\* C24: the self-employment tax is the sum of its three portions, the
\* deduction is half of the Social Security and Medicare portions rounded to
\* the smallest unit of currency, the Social Security portion is taxed on at
\* most max(0, wage base - W-2 wages), the deduction exceeds half of the
\* total by at most the rounding, and without self-employment income or with
\* an unknown filing status the tax and the deduction are 0.
C24_SelfEmploymentTax ==
    /\ SelfEmploymentPortions
    /\ SelfEmploymentComputed =>
          2 * out.breakdown.selfEmploymentTaxDeduction <= out.breakdown.selfEmploymentTax + 1

\* W-2 wages leave less wage base than the taxable earnings, and Additional
\* Medicare is due.
C24_Witness ==
    /\ SelfEmploymentComputed
    /\ W2Wages > 0
    /\ SelfEmploymentDetails.additionalMedicarePortion > 0
    /\ SelfEmploymentDetails.socialSecurityPortion > 0
    /\ SelfEmploymentDetails.socialSecurityPortion
           = MathRound((snapshot.federalRuleset.selfEmploymentTax.socialSecurityWageBase - W2Wages)
                           * snapshot.federalRuleset.selfEmploymentTax.socialSecurityRate, 100)

\* Companion witness: a deduction half a unit above half of the total.
DeductionRoundedUp ==
    /\ SelfEmploymentComputed
    /\ 2 * out.breakdown.selfEmploymentTaxDeduction = out.breakdown.selfEmploymentTax + 1

----------------------------------------------------------------------------
(* Properties of the risk-flag list                                          *)

FlagsCoded(flags, code) == {i \in 1..Len(flags) : flags[i].code = code}

\* C25: every flag code occurs at most once in the riskFlags of an output;
\* a profile with advanced attributes yields exactly one
\* OUT_OF_SCOPE_CASE_DETECTED flag.
C25_FlagCodesUnique ==
    Produced =>
        /\ \A i, j \in 1..Len(out.riskFlags) :
              out.riskFlags[i].code = out.riskFlags[j].code => i = j
        /\ AnyAdvancedAttribute =>
              Cardinality(FlagsCoded(out.riskFlags, "OUT_OF_SCOPE_CASE_DETECTED")) = 1

\* Companion property: OUT_OF_SCOPE_CASE_DETECTED occurs twice exactly for the
\* profiles with advanced attributes, and every other code at most once.
OnlyAdvancedAttributesFlaggedTwice ==
    Produced =>
        /\ \A i, j \in 1..Len(out.riskFlags) :
              (out.riskFlags[i].code = out.riskFlags[j].code /\ i # j) =>
                  out.riskFlags[i].code = "OUT_OF_SCOPE_CASE_DETECTED"
        /\ Cardinality(FlagsCoded(out.riskFlags, "OUT_OF_SCOPE_CASE_DETECTED"))
               = (IF AnyAdvancedAttribute THEN 2
                  ELSE IF out.scope.status # "IN_SCOPE" THEN 1 ELSE 0)

\* Companion witness: the one out-of-scope condition is the only high flag
\* and costs 16 points of confidence.
OutOfScopeCountedTwice ==
    /\ Produced
    /\ AnyAdvancedAttribute
    /\ HighFlags(out.riskFlags) = 2
    /\ \E i \in 1..Len(out.confidence.drivers) :
          /\ out.confidence.drivers[i].code = "HIGH_RISK_FLAGS"
          /\ out.confidence.drivers[i].impact = -16

----------------------------------------------------------------------------
(* Properties of the idempotency records of finished requests                *)

\* Request r created a record and its reply has left.
FinishedWithRecord(r) == requests[r].pc = "done" /\ requests[r].idempotency # Undefined

RecordsOf(r) == {row \in idemRecords : row.id = Val(requests[r].idempotency).recordId}

\* C26: no record stays PROCESSING after its request has finished: the
\* record of a request whose handler failed is FAILED and the record of a
\* request whose handler succeeded is COMPLETED.
C26_NoRecordLeftProcessing ==
    \A r \in RequestIds :
        FinishedWithRecord(r) =>
            \A row \in RecordsOf(r) :
                /\ row.status # "PROCESSING"
                /\ row.status = (IF requests[r].statusCode >= 400 THEN "FAILED" ELSE "COMPLETED")

\* Companion property: the record of a finished request is COMPLETED when
\* the handler succeeded and still PROCESSING when it failed.
FailedRequestLeavesProcessing ==
    \A r \in RequestIds :
        FinishedWithRecord(r) =>
            \A row \in RecordsOf(r) :
                row.status = (IF requests[r].statusCode >= 400 THEN "PROCESSING" ELSE "COMPLETED")

\* Companion witness: a retry with the same key and payload after a failed
\* request is answered 202 IDEMPOTENCY_IN_FLIGHT.
RetryAfterFailureInFlight ==
    \E r, q \in RequestIds :
        /\ FinishedWithRecord(r)
        /\ requests[r].statusCode >= 400
        /\ Answered(q)
        /\ requests[q].key = requests[r].key
        /\ requests[q].body = requests[r].body
        /\ requests[q].existing # Undefined
        /\ Val(requests[q].existing).id = Val(requests[r].idempotency).recordId
        /\ RepliedWith(q, 202, "{code:IDEMPOTENCY_IN_FLIGHT}")

----------------------------------------------------------------------------
(* Properties of concurrent requests with one idempotency key                *)

\* Requests r and q carry the same key tuple and payload and captured the
\* same time.
SameRequest(r, q) ==
    /\ r # q
    /\ requests[r].key # Null
    /\ requests[r].key = requests[q].key
    /\ requests[r].body = requests[q].body
    /\ requests[r].now = requests[q].now
    /\ requests[r].pc # "new" /\ requests[q].pc # "new"

CreatedRecord(r) == requests[r].idempotency # Undefined

\* r and q are the only requests that carry their key
OnlyTwoCarry(r, q) ==
    \A p \in RequestIds \ {r, q} : requests[p].key # requests[r].key

\* C27: of two concurrent requests with the same key tuple and payload,
\* the only two that carry the key, at most one creates the record and runs
\* the handler, and before any record can expire the handler's side effect
\* happens at most once per key.
C27_AtMostOneRuns ==
    /\ \A r, q \in RequestIds :
          (SameRequest(r, q) /\ OnlyTwoCarry(r, q)) =>
              /\ ~(CreatedRecord(r) /\ CreatedRecord(q))
              /\ ~(requests[r].ranHandler /\ requests[q].ranHandler)
    /\ clock = 0 => \A key \in IdempotencyKeys : handlerRuns[key] <= 1
    /\ \A row1, row2 \in idemRecords : row1.key = row2.key => row1 = row2

\* Both requests looked up the key before either created the record: one
\* ran the handler and the other failed on the unique index.
C27_Witness ==
    \E r, q \in RequestIds :
        /\ SameRequest(r, q)
        /\ requests[r].existing = Undefined /\ requests[q].existing = Undefined
        /\ requests[r].ranHandler
        /\ ~requests[q].ranHandler
        /\ requests[q].reply = InternalError

----------------------------------------------------------------------------
(* Properties of the refresh-token rotation                                  *)

Returned(c) == refreshCalls[c].pc = "returned"

TokensReturned == {Val(refreshCalls[c].result) : c \in {d \in RefreshIds : Returned(d)}}

\* C28: refresh tokens are single-use: at most one refreshSession call
\* succeeds with a given token, no session accepts a token that a call
\* succeeded with, and the hash a session stores is the hash of its login
\* token or of a token returned to a caller.
C28_RefreshSingleUse ==
    /\ \A c, d \in RefreshIds :
          (c # d /\ Returned(c) /\ Returned(d)) =>
              refreshCalls[c].refreshToken # refreshCalls[d].refreshToken
    /\ \A c \in RefreshIds :
          Returned(c) =>
              FindSession(deviceSessions, sha256(refreshCalls[c].refreshToken)) = Null
    /\ \A id \in SessionIds :
          \/ deviceSessions[id].refreshTokenHash \in {sha256(newRefreshToken(1)), sha256(newRefreshToken(2))}
          \/ \E token \in TokensReturned : deviceSessions[id].refreshTokenHash = sha256(token)

\* Companion property: a used token is accepted by no session, and every
\* stored hash is that of a login token or of a returned token.
UsedTokenNotAccepted ==
    /\ \A c \in RefreshIds :
          Returned(c) =>
              FindSession(deviceSessions, sha256(refreshCalls[c].refreshToken)) = Null
    /\ \A id \in SessionIds :
          \/ deviceSessions[id].refreshTokenHash \in {sha256(newRefreshToken(1)), sha256(newRefreshToken(2))}
          \/ \E token \in TokensReturned : deviceSessions[id].refreshTokenHash = sha256(token)

\* Companion witness: two calls succeeded with one token, and the token
\* returned to one of them is accepted by no session.
TwoCallsRotatedOneToken ==
    \E c, d \in RefreshIds :
        /\ c # d /\ Returned(c) /\ Returned(d)
        /\ refreshCalls[c].refreshToken = refreshCalls[d].refreshToken
        /\ FindSession(deviceSessions, sha256(Val(refreshCalls[c].result))) = Null
        /\ FindSession(deviceSessions, sha256(Val(refreshCalls[d].result))) # Null

----------------------------------------------------------------------------
(* Properties of an import with respect to other users                       *)

\* Row k of import i repeats an earlier row of its file, or a transaction
\* of the importing user carried its fingerprint when it was looked up.
IsOwnDuplicateRow(i, k) ==
    \/ \E j \in 1..(k - 1) : RowFingerprint(i, j) = RowFingerprint(i, k)
    \/ imports[i].ownStored[k]

\* C29: the result of an import depends only on the file and on the
\* importing user's own transactions: a row creates a transaction unless
\* it repeats an earlier row of the file or a transaction of the same user,
\* and the counts are those of such rows.
C29_OwnTransactionsOnly ==
    \A i \in ImportIds :
        imports[i].pc = "completed" =>
            LET rowNumbers == 1..Len(imports[i].rows)
            IN  /\ \A k \in rowNumbers : imports[i].outcomes[k].created <=> ~IsOwnDuplicateRow(i, k)
                /\ Val(imports[i].result).duplicateCount
                       = Cardinality({k \in rowNumbers : IsOwnDuplicateRow(i, k)})
                /\ Val(imports[i].result).createdCount
                       = Cardinality({k \in rowNumbers : ~IsOwnDuplicateRow(i, k)})

\* Companion witness: a user's import of a one-row file creates nothing
\* because another user imported the same transaction.
OtherUsersImportCounted ==
    \E i, j \in ImportIds :
        /\ imports[i].pc = "completed" /\ imports[j].pc = "completed"
        /\ imports[i].userId # imports[j].userId
        /\ Len(imports[j].rows) = 1
        /\ Val(imports[j].result).createdCount = 0
        /\ Val(imports[j].result).duplicateCount = 1
        /\ \A t \in transactionTable : t.userId = imports[i].userId

----------------------------------------------------------------------------
(* Properties of the loaders with respect to jurisdiction                    *)

JurisdictionOf(loader) ==
    IF loader = "loadFederalRuleset" THEN "federal" ELSE "state"

\* the jurisdiction under which the index lists the version, Null if unlisted
ListedJurisdiction(version) ==
    LET entry == FindVersion(loadRulesetMeta, version)
    IN IF entry = Undefined THEN Null ELSE Val(entry).jurisdiction

\* C30: a loader returns only documents of its own jurisdiction, and a
\* request for a version the index lists under the other jurisdiction fails.
C30_LoaderKeepsJurisdiction ==
    request.loader # Null =>
        /\ (loaded.kind = "ruleset" =>
               Field(loaded.ruleset, "jurisdiction") = JurisdictionOf(request.loader))
        /\ (ListedJurisdiction(request.version)
                \notin {Null, JurisdictionOf(request.loader)} => loaded.kind = "error")

\* Companion witness: the federal loader returns the published state
\* document, and the state loader the published federal document.
OtherJurisdictionReturned ==
    /\ request.loader = "loadFederalRuleset"
    /\ request.version = StateVersion
    /\ edits = 0
    /\ loaded.kind = "ruleset"
    /\ Field(loaded.ruleset, "id") = StateVersion
    /\ Field(loaded.ruleset, "jurisdiction") = "state"

\* Companion property: what a loader returns is the document read at the
\* path the index lists for the requested version, whichever loader was asked.
LoaderReturnsListedFile ==
    (request.loader # Null /\ loaded.kind = "ruleset") =>
        /\ ListedJurisdiction(request.version) # Null
        /\ loaded.ruleset = readDoc

====
